---- MODULE Spec2Model ----
(***************************************************************************)
(* The model-selection and invocation engine of OneBOT (src/ai_helper.py): *)
(* catalogue refresh, smoke test, active model, invocation pipeline,       *)
(* fallback cascade and the ask_ai entry point, as coroutines that         *)
(* interleave at their await points.                                       *)
(*                                                                         *)
(* Python strings that the code inspects (model ids, names, completion     *)
(* text) are sequences of one-character strings.  Strings that are only    *)
(* compared and formatted (failure details, codes, user-facing messages)   *)
(* are TLA+ strings.                                                       *)
(***************************************************************************)
EXTENDS Integers, Sequences, FiniteSets, TLC

(***************************************************************************)
(* Text primitives: str.lower, str.strip, str.replace, "in".               *)
(***************************************************************************)
WS == {" ", "\n", "\t", "\r"}

Digits == {"0", "1", "2", "3", "4", "5", "6", "7", "8", "9"}

UpperToLower ==
  [A |-> "a", B |-> "b", C |-> "c", D |-> "d", E |-> "e", F |-> "f", G |-> "g",
   H |-> "h", I |-> "i", J |-> "j", K |-> "k", L |-> "l", M |-> "m", N |-> "n",
   O |-> "o", P |-> "p", Q |-> "q", R |-> "r", S |-> "s", T |-> "t", U |-> "u",
   V |-> "v", W |-> "w", X |-> "x", Y |-> "y", Z |-> "z"]

LowerChar(c) == IF c \in DOMAIN UpperToLower THEN UpperToLower[c] ELSE c

lower(s) == [i \in 1..Len(s) |-> LowerChar(s[i])]

Take(s, n) == SubSeq(s, 1, n)

Drop(s, n) == SubSeq(s, n + 1, Len(s))

MinOf(S) == CHOOSE x \in S : \A y \in S : x <= y

\* p occurs in s at index i
MatchAt(s, i, p) ==
  /\ i >= 1
  /\ i + Len(p) - 1 <= Len(s)
  /\ \A k \in 1..Len(p) : s[i + k - 1] = p[k]

\* the same, ignoring case (p is lower case): the (?i) flag
MatchAtI(s, i, p) ==
  /\ i >= 1
  /\ i + Len(p) - 1 <= Len(s)
  /\ \A k \in 1..Len(p) : LowerChar(s[i + k - 1]) = p[k]

\* Python's  p in s  for a non-empty p
contains(s, p) == \E i \in 1..Len(s) : MatchAt(s, i, p)

\* length of the longest prefix / suffix of s made of characters of cs
LeadRun(s, cs) ==
  CHOOSE n \in 0..Len(s) :
    /\ \A j \in 1..n : s[j] \in cs
    /\ (n = Len(s) \/ s[n + 1] \notin cs)

TrailRun(s, cs) ==
  CHOOSE n \in 0..Len(s) :
    /\ \A j \in (Len(s) - n + 1)..Len(s) : s[j] \in cs
    /\ (n = Len(s) \/ s[Len(s) - n] \notin cs)

strip(s) ==
  LET t == Drop(s, LeadRun(s, WS))
  IN  Take(t, Len(t) - TrailRun(t, WS))

\* s[i..] with every occurrence of old replaced by new, left to right
RECURSIVE ReplaceFrom(_, _, _, _)
ReplaceFrom(s, i, old, new) ==
  IF i > Len(s) THEN <<>>
  ELSE IF MatchAt(s, i, old)
       THEN new \o ReplaceFrom(s, i + Len(old), old, new)
       ELSE <<s[i]>> \o ReplaceFrom(s, i + 1, old, new)

replace(s, old, new) == ReplaceFrom(s, 1, old, new)

(***************************************************************************)
(* sanitize_discord_output, one operator per re.sub / replace step.        *)
(***************************************************************************)
CURRENT_YEAR == <<"2", "0", "2", "5">>

\* index of the ">" closing  <\s*think[^>]*>  that opens at i, or 0
ThinkOpenEnd(s, i) ==
  IF ~(i <= Len(s) /\ s[i] = "<") THEN 0
  ELSE LET j == i + 1 + LeadRun(Drop(s, i), WS)
       IN  IF ~MatchAtI(s, j, <<"t", "h", "i", "n", "k">>) THEN 0
           ELSE LET gt == {k \in (j + 5)..Len(s) : s[k] = ">"}
                IN  IF gt = {} THEN 0 ELSE MinOf(gt)

\* index of the ">" closing  </\s*think>  that opens at i, or 0
ThinkCloseEnd(s, i) ==
  IF ~MatchAt(s, i, <<"<", "/">>) THEN 0
  ELSE LET j == i + 2 + LeadRun(Drop(s, i + 1), WS)
       IN  IF MatchAtI(s, j, <<"t", "h", "i", "n", "k", ">">>) THEN j + 5 ELSE 0

\* last index of the match of  .*?(?:</\s*think>|$)  that starts at index from
ThinkBlockEnd(s, from) ==
  LET closes  == {p \in from..Len(s) : ThinkCloseEnd(s, p) # 0}
      dollars == {Len(s) + 1} \cup
                 (IF Len(s) >= from /\ s[Len(s)] = "\n" THEN {Len(s)} ELSE {})
      p       == MinOf(closes \cup dollars)
  IN  IF p \in closes THEN ThinkCloseEnd(s, p) ELSE p - 1

\* re.sub(r"(?is)<\s*think[^>]*>.*?(?:</\s*think>|$)", "", text)
RECURSIVE StripThinkFrom(_, _)
StripThinkFrom(s, i) ==
  IF i > Len(s) THEN <<>>
  ELSE LET k == ThinkOpenEnd(s, i)
       IN  IF k = 0 THEN <<s[i]>> \o StripThinkFrom(s, i + 1)
           ELSE StripThinkFrom(s, ThinkBlockEnd(s, k + 1) + 1)

StripThink(s) == StripThinkFrom(s, 1)

\* text.replace("**", "** ").replace("__", "__ ").replace("*", "* ")
SpaceEmphasis(s) ==
  replace(replace(replace(s, <<"*", "*">>, <<"*", "*", " ">>),
                  <<"_", "_">>, <<"_", "_", " ">>),
          <<"*">>, <<"*", " ">>)

\* re.sub(r"^[-\s\n]{2,}", "", text)
StripLeadingDashes(s) ==
  LET n == LeadRun(s, WS \cup {"-"})
  IN  IF n >= 2 THEN Drop(s, n) ELSE s

PreambleWords ==
  { <<"r", "e", "s", "p", "o", "n", "d", " ", "w", "i", "t", "h">>,
    <<"o", "k", "a", "y">>,
    <<"s", "u", "r", "e">> }

\* re.sub(r"(?i)^(respond with|okay|sure)[^\n]*?(post|style)[^\n]*\n?", "", text)
StripPreamble(s) ==
  LET heads == {w \in PreambleWords : MatchAtI(s, 1, w)}
  IN  IF heads = {} THEN s
      ELSE LET w   == CHOOSE x \in heads : TRUE
               nls == {k \in (Len(w) + 1)..Len(s) : s[k] = "\n"}
               nl  == IF nls = {} THEN Len(s) + 1 ELSE MinOf(nls)
               hit == \E q \in (Len(w) + 1)..(nl - 1) :
                         \/ MatchAtI(s, q, <<"p", "o", "s", "t">>) /\ q + 3 < nl
                         \/ MatchAtI(s, q, <<"s", "t", "y", "l", "e">>) /\ q + 4 < nl
           IN  IF hit THEN Drop(s, IF nl <= Len(s) THEN nl ELSE Len(s)) ELSE s

\* the full-width colon U+FF1A, kept as one character
FullWidthColon == "U+FF1A"

\* re.sub(r"(?i)disclaimer[:：\*].*", "", text, flags=re.DOTALL)
StripDisclaimer(s) ==
  LET hits == {i \in 1..Len(s) :
                 /\ MatchAtI(s, i, <<"d", "i", "s", "c", "l", "a", "i", "m", "e", "r">>)
                 /\ i + 10 <= Len(s)
                 /\ s[i + 10] \in {":", FullWidthColon, "*"}}
  IN  IF hits = {} THEN s ELSE Take(s, MinOf(hits) - 1)

\* re.sub(r"\*{1,2}\s*$", "", text)
StripTrailingStars(s) ==
  LET w     == TrailRun(s, WS)
      body  == Take(s, Len(s) - w)
      stars == TrailRun(body, {"*"})
  IN  IF stars = 0 THEN s
      ELSE Take(body, Len(body) - (IF stars >= 2 THEN 2 ELSE 1))

\* re.sub(r">", "\n", text)
QuoteToNewline(s) == [i \in 1..Len(s) |-> IF s[i] = ">" THEN "\n" ELSE s[i]]

\* re.sub(r"^[\s\n]+", "", text)
StripLeadingSpace(s) == Drop(s, LeadRun(s, WS))

\* s has  <tag>20\d{2}  at index i, ignoring case
YearTagAt(s, i, tag) ==
  /\ MatchAtI(s, i, tag \o <<"2", "0">>)
  /\ i + Len(tag) + 3 <= Len(s)
  /\ s[i + Len(tag) + 2] \in Digits
  /\ s[i + Len(tag) + 3] \in Digits

\* re.sub(tag + r"20\d{2}", new, text, flags=re.IGNORECASE)
RECURSIVE SubYearTagFrom(_, _, _, _)
SubYearTagFrom(s, i, tag, new) ==
  IF i > Len(s) THEN <<>>
  ELSE IF YearTagAt(s, i, tag)
       THEN new \o SubYearTagFrom(s, i + Len(tag) + 4, tag, new)
       ELSE <<s[i]>> \o SubYearTagFrom(s, i + 1, tag, new)

SubYearTag(s, tag, new) == SubYearTagFrom(s, 1, tag, new)

FixHashtags(s) ==
  SubYearTag(SubYearTag(s, <<"#", "t", "r", "u", "m", "p">>,
                        <<"#", "T", "r", "u", "m", "p">> \o CURRENT_YEAR),
             <<"#", "b", "i", "d", "e", "n">>, <<>>)

MetaOpeners ==
  { <<"i", "m", "p", "o", "r", "t", "a", "n", "t">>,
    <<"t", "h", "i", "s", " ", "i", "s", " ", "a", " ", "f", "i", "c", "t", "i", "o",
      "n", "a", "l", " ", "e", "x", "e", "r", "c", "i", "s", "e">>,
    <<"t", "h", "e", " ", "c", "o", "n", "t", "e", "n", "t", " ", "i", "s", " ", "o",
      "f", "f", "e", "n", "s", "i", "v", "e">> }

\* re.sub(r"(?i)(---+|IMPORTANT.*|This is a fictional exercise.*|The content is
\* offensive.*)", "", text, flags=re.DOTALL)
RECURSIVE StripMetaFrom(_, _)
StripMetaFrom(s, i) ==
  IF i > Len(s) THEN <<>>
  ELSE LET d == LeadRun(Drop(s, i - 1), {"-"})
       IN  IF d >= 3 THEN StripMetaFrom(s, i + d)
           ELSE IF \E w \in MetaOpeners : MatchAtI(s, i, w) THEN <<>>
           ELSE <<s[i]>> \o StripMetaFrom(s, i + 1)

StripMeta(s) == StripMetaFrom(s, 1)

sanitize_discord_output(text) ==
  LET t1 == strip(SpaceEmphasis(StripThink(text)))
      t2 == StripPreamble(strip(StripLeadingDashes(t1)))
      t3 == strip(StripTrailingStars(StripDisclaimer(t2)))
      t4 == StripTrailingStars(StripLeadingSpace(QuoteToNewline(t3)))
  IN  strip(StripMeta(FixHashtags(t4)))

_REFUSAL_MARKERS ==
  << <<"i","'","m"," ","s","o","r","r","y">>,
     <<"i"," ","a","m"," ","s","o","r","r","y">>,
     <<"s","o","r","r","y",","," ","i"," ","c","a","n","'","t">>,
     <<"s","o","r","r","y",","," ","i"," ","c","a","n","n","o","t">>,
     <<"s","o","r","r","y"," ","b","u","t"," ","i"," ","c","a","n","'","t">>,
     <<"c","a","n","'","t"," ","c","o","m","p","l","y">>,
     <<"c","a","n","n","o","t"," ","c","o","m","p","l","y">>,
     <<"c","a","n","'","t"," ","a","s","s","i","s","t">>,
     <<"c","a","n","n","o","t"," ","a","s","s","i","s","t">>,
     <<"i"," ","c","a","n","'","t"," ","h","e","l","p"," ","w","i","t","h">>,
     <<"i"," ","c","a","n","n","o","t"," ","h","e","l","p"," ","w","i","t","h">>,
     <<"i"," ","c","a","n","'","t"," ","p","r","o","v","i","d","e">>,
     <<"i"," ","c","a","n","n","o","t"," ","p","r","o","v","i","d","e">>,
     <<"i"," ","c","a","n","'","t"," ","f","u","l","f","i","l","l">>,
     <<"i"," ","c","a","n","n","o","t"," ","f","u","l","f","i","l","l">>,
     <<"a","g","a","i","n","s","t"," ","m","y"," ","p","o","l","i","c","y">>,
     <<"a","g","a","i","n","s","t"," ","o","u","r"," ","p","o","l","i","c","y">>,
     <<"a","g","a","i","n","s","t"," ","p","o","l","i","c","y">>,
     <<"d","u","e"," ","t","o"," ","p","o","l","i","c","y">>,
     <<"v","i","o","l","a","t","e","s"," ","p","o","l","i","c","y">>,
     <<"p","o","l","i","c","y"," ","g","u","i","d","e","l","i","n","e","s">>,
     <<"c","o","n","t","e","n","t"," ","p","o","l","i","c","y">>,
     <<"m","o","d","e","r","a","t","i","o","n"," ","g","u","i","d","e","l","i","n","e","s">>,
     <<"i"," ","m","u","s","t"," ","r","e","f","u","s","e">>,
     <<"i"," ","h","a","v","e"," ","t","o"," ","r","e","f","u","s","e">>,
     <<"c","a","n","n","o","t"," ","g","e","n","e","r","a","t","e"," ","t","h","a","t">>,
     <<"i"," ","c","a","n","n","o","t"," ","g","e","n","e","r","a","t","e">>,
     <<"n","o","t"," ","a","b","l","e"," ","t","o"," ","c","o","m","p","l","y">>,
     <<"d","e","c","l","i","n","e"," ","t","o"," ","c","o","m","p","l","y">>,
     <<"s","o","r","r","y"," ","b","u","t"," ","i"," ","w","o","n","'","t">>,
     <<"i"," ","w","o","n","'","t"," ","d","o"," ","t","h","a","t"," ","r","e","q","u","e","s","t">> >>

_REASONING_MARKERS ==
  << <<"t","h","e"," ","u","s","e","r"," ","w","a","n","t","s">>,
     <<"t","h","e"," ","i","n","s","t","r","u","c","t","i","o","n"," ","s","a","y","s">>,
     <<"t","h","e"," ","u","s","e","r"," ","i","s"," ","a","s","k","i","n","g">>,
     <<"l","e","t"," ","m","e"," ","t","h","i","n","k">>,
     <<"l","e","t","'","s"," ","t","h","i","n","k">>,
     <<"a","n","a","l","y","s","i","s",":">>,
     <<"r","e","a","s","o","n","i","n","g",":">>,
     <<"t","h","o","u","g","h","t"," ","p","r","o","c","e","s","s">>,
     <<"d","e","l","i","b","e","r","a","t","i","o","n",":">>,
     <<"s","t","e","p"," ","b","y"," ","s","t","e","p"," ","r","e","a","s","o","n","i","n","g">>,
     <<"i","n","t","e","r","n","a","l"," ","r","e","a","s","o","n","i","n","g">> >>

_is_refusal_response(text) ==
  \E m \in 1..Len(_REFUSAL_MARKERS) : contains(lower(text), _REFUSAL_MARKERS[m])

_has_reasoning_leak(text) ==
  \E m \in 1..Len(_REASONING_MARKERS) : contains(lower(text), _REASONING_MARKERS[m])

(***************************************************************************)
(* JSON values as the provider sends them, and the Python operations the   *)
(* code applies to them.  An operation yields Ok(value) or Raise(name).    *)
(***************************************************************************)
JNull == [t |-> "null"]

JStr(s) == [t |-> "str", v |-> s]

JNum(n) == [t |-> "num", v |-> n]

JList(items) == [t |-> "list", v |-> items]

\* fields: a function from key strings to JSON values (a TLA+ record)
JObj(fields) == [t |-> "obj", v |-> fields]

NoFields == [k \in {} |-> JNull]

Ok(v) == [ok |-> TRUE, v |-> v]

Raise(exc) == [ok |-> FALSE, exc |-> exc]

\* Python's  x[key]  for a string key
GetItemKey(x, key) ==
  IF x.t = "obj"
  THEN IF key \in DOMAIN x.v THEN Ok(x.v[key]) ELSE Raise("KeyError")
  ELSE Raise("TypeError")

\* Python's  x[0]
GetItem0(x) ==
  CASE x.t = "list" -> IF Len(x.v) >= 1 THEN Ok(x.v[1]) ELSE Raise("IndexError")
    [] x.t = "str"  -> IF Len(x.v) >= 1 THEN Ok(JStr(<<x.v[1]>>)) ELSE Raise("IndexError")
    [] x.t = "obj"  -> Raise("KeyError")
    [] OTHER        -> Raise("TypeError")

\* Python's  x.get(key, default)
DictGet(x, key, default) ==
  IF x.t = "obj"
  THEN Ok(IF key \in DOMAIN x.v THEN x.v[key] ELSE default)
  ELSE Raise("AttributeError")

\* Python's  x.strip()
StrStrip(x) == IF x.t = "str" THEN Ok(strip(x.v)) ELSE Raise("AttributeError")

\* Python's truth value of x
Truthy(x) ==
  CASE x.t = "null" -> FALSE
    [] x.t = "num"  -> x.v # 0
    [] x.t = "str"  -> Len(x.v) > 0
    [] x.t = "list" -> x.v # <<>>
    [] OTHER        -> DOMAIN x.v # {}

\* r, then f applied to its value, unless r raised
Then(r, f(_)) == IF r.ok THEN f(r.v) ELSE r

extract_content(data) ==
  LET Choices(d)  == GetItemKey(d, "choices")
      Message(c)  == GetItemKey(c, "message")
      Content(m)  == GetItemKey(m, "content")
      Bare(c)     == DictGet(c, "content", JStr(<<>>))
      first       == Then(Then(Then(Then(Choices(data), GetItem0), Message), Content),
                          StrStrip)
      second      == Then(Then(Then(Choices(data), GetItem0), Bare), StrStrip)
  IN  IF first.ok THEN first
      ELSE IF first.exc \in {"KeyError", "TypeError"}
           THEN (IF second.ok THEN second ELSE Ok(<<>>))
           ELSE first

(***************************************************************************)
(* _invoke_model: the outcome of one completion request, as a function of  *)
(* the credential, the model id and what the HTTP POST came back with.     *)
(* A response is a transport exception, a body that is not JSON, or a      *)
(* JSON body.                                                              *)
(***************************************************************************)
None == "<None>"

NoText == <<>>

\* no response yet
NoResponse == [kind |-> "none", text |-> "", status |-> 0, body |-> JNull]

ExcResponse(text) == [kind |-> "exc", text |-> text, status |-> 0, body |-> JNull]

NonJsonResponse(status) == [kind |-> "nonjson", text |-> "", status |-> status, body |-> JNull]

JsonResponse(status, body) == [kind |-> "json", text |-> "", status |-> status, body |-> body]

\* an outcome record; guard counts the calls of check_memory_and_exit
Failure(detail, code, guard) ==
  [success |-> FALSE, raised |-> None, detail |-> detail, code |-> code,
   content |-> NoText, raw |-> NoText, model_id |-> NoText, guard |-> guard]

Success(content, raw, model_id) ==
  [success |-> TRUE, raised |-> None, detail |-> None, code |-> None,
   content |-> content, raw |-> raw, model_id |-> model_id, guard |-> 1]

\* the call left by an exception instead of returning
Raised(exc) ==
  [success |-> FALSE, raised |-> exc, detail |-> None, code |-> None,
   content |-> NoText, raw |-> NoText, model_id |-> NoText, guard |-> 0]

\* str(code) if code is not None else None
CodeString(code) ==
  CASE code.t = "null" -> None
    [] code.t = "num"  -> ToString(code.v)
    [] OTHER           -> code.v

MissingKeyOutcome == Failure("OPENROUTER_API_KEY not configured.", "missing_api_key", 0)

\* InvokeParsed looking for a reasoning leak before it looks for a refusal
InvokeParsedLeakFirst(model_id, data) ==
  LET error == DictGet(data, "error", JNull)
  IN  IF ~error.ok THEN Raised(error.exc)
      ELSE IF Truthy(error.v)
      THEN LET code    == DictGet(error.v, "code", JNull)
               message == DictGet(error.v, "message", JStr("unknown error"))
           IN  IF ~code.ok THEN Raised(code.exc)
               ELSE Failure(IF message.v.t = "str" THEN message.v.v ELSE None,
                            CodeString(code.v), 1)
      ELSE LET content == extract_content(data)
           IN  IF ~content.ok THEN Raised(content.exc)
               ELSE IF content.v = <<>> \/ Len(content.v) < 16
               THEN Failure("empty_content", None, 1)
               ELSE LET sanitized == sanitize_discord_output(content.v)
                    IN  IF _has_reasoning_leak(sanitized)
                        THEN Failure("reasoning_leak", None, 1)
                        ELSE IF _is_refusal_response(sanitized)
                        THEN Failure("refusal", "refusal", 1)
                        ELSE Success(sanitized, content.v, model_id)

\* lines 212-243: the JSON body has been parsed into data
InvokeParsed(model_id, data) ==
  LET error == DictGet(data, "error", JNull)
  IN  IF ~error.ok THEN Raised(error.exc)
      ELSE IF Truthy(error.v)
      THEN LET code    == DictGet(error.v, "code", JNull)
               message == DictGet(error.v, "message", JStr("unknown error"))
           IN  IF ~code.ok THEN Raised(code.exc)
               ELSE Failure(IF message.v.t = "str" THEN message.v.v ELSE None,
                            CodeString(code.v), 1)
      ELSE LET content == extract_content(data)
           IN  IF ~content.ok THEN Raised(content.exc)
               ELSE IF content.v = <<>> \/ Len(content.v) < 16
               THEN Failure("empty_content", None, 1)
               ELSE LET sanitized == sanitize_discord_output(content.v)
                    IN  IF _is_refusal_response(sanitized)
                        THEN Failure("refusal", "refusal", 1)
                        ELSE IF _has_reasoning_leak(sanitized)
                        THEN Failure("reasoning_leak", None, 1)
                        ELSE Success(sanitized, content.v, model_id)

\* lines 195-243: the POST has come back with response
InvokeResponse(model_id, response) ==
  CASE response.kind = "exc"     -> Failure(response.text, None, 1)
    [] response.kind = "nonjson" -> Failure("invalid_response", ToString(response.status), 1)
    [] OTHER                     -> InvokeParsed(model_id, response.body)

(***************************************************************************)
(* What the provider can answer: completion texts and response bodies.     *)
(***************************************************************************)
\* completion texts
Text ==
  [Good |->
     <<"S", "A", "D", "!", " ", "F", "A", "K", "E", " ", "N", "E", "W", "S", "!", "!">>,
   Short |->
     <<"S", "A", "D", "!", " ", "F", "A", "K", "E", " ", "N", "E", "W", "S", "!">>,
   Think |->
     <<"<", "t", "h", "i", "n", "k", ">", "p", "l", "a", "n", "<", "/", "t", "h", "i", "n", "k", ">", "S", "A", "D", "!", " ", "F", "A", "K", "E", " ", "N", "E", "W", "S", "!">>,
   Void |->
     <<"<", "t", "h", "i", "n", "k", ">", "p", "l", "a", "n", " ", "p", "l", "a", "n", " ", "p", "l", "a", "n">>,
   Refusal |->
     <<"I", "'", "m", " ", "s", "o", "r", "r", "y", ",", " ", "n", "o", " ", "w", "a", "y", ".">>,
   Leak |->
     <<"L", "e", "t", " ", "m", "e", " ", "t", "h", "i", "n", "k", " ", "h", "e", "r", "e", ".">>,
   Both |->
     <<"I", "'", "m", " ", "s", "o", "r", "r", "y", ".", " ", "L", "e", "t", " ", "m", "e", " ", "t", "h", "i", "n", "k">>,
   \* a refusal phrase in a text of 12 characters
   ShortRefusal |->
     <<"c", "a", "n", "'", "t", " ", "c", "o", "m", "p", "l", "y">>,
   \* emphasis markers in the middle of the text
   Starred |->
     <<"S", "A", "D", "!", " ", "*", "F", "A", "K", "E", "*", " ", "N", "E", "W", "S", "!", "!">>]

\* response bodies, as response.json() returns them
Body ==
  [Good |->
     JObj([choices |-> JList(<<JObj([message |-> JObj([content |-> JStr(Text.Good)])])>>)]),
   Bare |-> JObj([choices |-> JList(<<JObj([content |-> JStr(Text.Good)])>>)]),
   Short |->
     JObj([choices |-> JList(<<JObj([message |-> JObj([content |-> JStr(Text.Short)])])>>)]),
   Think |->
     JObj([choices |-> JList(<<JObj([message |-> JObj([content |-> JStr(Text.Think)])])>>)]),
   Void |->
     JObj([choices |-> JList(<<JObj([message |-> JObj([content |-> JStr(Text.Void)])])>>)]),
   Refusal |->
     JObj([choices |-> JList(<<JObj([message |-> JObj([content |-> JStr(Text.Refusal)])])>>)]),
   Leak |->
     JObj([choices |-> JList(<<JObj([message |-> JObj([content |-> JStr(Text.Leak)])])>>)]),
   Both |->
     JObj([choices |-> JList(<<JObj([message |-> JObj([content |-> JStr(Text.Both)])])>>)]),
   Starred |->
     JObj([choices |-> JList(<<JObj([message |-> JObj([content |-> JStr(Text.Starred)])])>>)]),
   ShortRefusal |->
     JObj([choices |->
             JList(<<JObj([message |-> JObj([content |-> JStr(Text.ShortRefusal)])])>>)]),
   NoChoices |-> JObj(NoFields),
   EmptyChoices |-> JObj([choices |-> JList(<<>>)]),
   NullContent |->
     JObj([choices |-> JList(<<JObj([message |-> JObj([content |-> JNull])])>>)]),
   BareNull |-> JObj([choices |-> JList(<<JObj([content |-> JNull])>>)]),
   NotObject |-> JList(<<>>),
   ErrorString |-> JObj([error |-> JStr("rate limited")]),
   Error429 |-> JObj([error |-> JObj([code |-> JNum(429), message |-> JStr("rate")])]),
   Error429Str |->
     JObj([error |-> JObj([code |-> JStr("429"), message |-> JStr("rate")])]),
   Error500 |-> JObj([error |-> JObj([code |-> JNum(500), message |-> JStr("boom")])]),
   \* an error envelope next to a usable completion
   ErrorWithChoices |->
     JObj([error   |-> JObj([code |-> JNum(503), message |-> JStr("busy")]),
           choices |-> JList(<<JObj([message |-> JObj([content |-> JStr(Text.Good)])])>>)]),
   ErrorNoCode |-> JObj([error |-> JObj([message |-> JStr("boom")])]),
   ErrorRefusal |-> JObj([error |-> JObj([message |-> JStr("refusal")])])]

Bodies == {Body[shape] : shape \in DOMAIN Body}

Responses ==
  {ExcResponse("timeout"), NonJsonResponse(429), NonJsonResponse(502)}
    \cup {JsonResponse(200, b) : b \in Bodies}

\* one response of each kind the callers of _invoke_model tell apart: a Success, a
\* rate limit, an unusable text, a failure that ends the request, an exception
CoreResponses ==
  {JsonResponse(200, b) :
     b \in {Body.Good, Body.Error429, Body.Refusal, Body.Short, Body.EmptyChoices}}

(***************************************************************************)
(* The catalogue: _has_free_keyword, _to_float, _coerce_int,               *)
(* _extract_context_length, and the filter and sort of refresh_free_models.*)
(* A candidate is [id, name, context_tokens].                              *)
(***************************************************************************)
FreeKeyword == <<"f", "r", "e", "e">>

\* model_id and model_name are texts; None is passed as the empty text
_has_free_keyword(model_id, model_name) ==
  contains(lower(model_id \o <<" ">> \o model_name), FreeKeyword)

\* the text of a JSON string, "" for a missing or null field:  x.get(key) or ""
TextOr(x, key, default) ==
  IF key \in DOMAIN x.v /\ x.v[key].t = "str" /\ x.v[key].v # <<>>
  THEN x.v[key].v ELSE default

RECURSIVE DigitsValue(_)
DigitsValue(s) ==
  IF s = <<>> THEN 0
  ELSE 10 * DigitsValue(Take(s, Len(s) - 1))
         + (CHOOSE d \in 0..9 : ToString(d) = s[Len(s)])

isdigit(s) == s # <<>> /\ \A k \in 1..Len(s) : s[k] \in Digits

NaN == [nan |-> TRUE, num |-> 0, scale |-> 0]

\* the float num / 10^scale
Float(num, scale) == [nan |-> FALSE, num |-> num, scale |-> scale]

\* float(value), NaN on TypeError / ValueError; value is a JSON value
_to_float(value) ==
  CASE value.t = "num" -> Float(value.v, 0)
    [] value.t = "str" ->
         LET body == strip(value.v)
             dots == {k \in 1..Len(body) : body[k] = "."}
         IN  IF dots = {} THEN (IF isdigit(body) THEN Float(DigitsValue(body), 0) ELSE NaN)
             ELSE LET d    == MinOf(dots)
                      int  == Take(body, d - 1)
                      frac == Drop(body, d)
                  IN  IF /\ int \o frac # <<>>
                         /\ \A k \in 1..Len(int \o frac) : (int \o frac)[k] \in Digits
                      THEN Float(DigitsValue(int \o frac), Len(frac))
                      ELSE NaN
    [] OTHER -> NaN

\* a comparison that takes NaN for zero
NotZeroUnlessNaN(x) == ~x.nan /\ x.num # 0

\* x != 0.0 on floats: NaN differs from everything
NotZero(x) == x.nan \/ x.num # 0

_coerce_int(value) ==
  CASE value.t = "num" -> value.v
    [] value.t = "str" -> IF isdigit(value.v) THEN DigitsValue(value.v) ELSE 0
    [] OTHER -> 0

FlatContextKeys ==
  <<"context_length", "context_window", "max_context_tokens", "input_max_tokens",
    "max_input_tokens", "max_output_tokens", "tokens">>

NestedContextKeys ==
  << <<"limits", "context_length">>, <<"limits", "max_context">>,
     <<"limits", "max_input_tokens">>, <<"usage", "max_tokens">> >>

\* item.get(key), None when absent
Field(x, key) == IF x.t = "obj" /\ key \in DOMAIN x.v THEN x.v[key] ELSE JNull

_extract_context_length(item) ==
  LET flat   == {k \in 1..Len(FlatContextKeys) :
                   _coerce_int(Field(item, FlatContextKeys[k])) # 0}
      nested == {k \in 1..Len(NestedContextKeys) :
                   _coerce_int(Field(Field(item, NestedContextKeys[k][1]),
                                     NestedContextKeys[k][2])) # 0}
  IN  IF flat # {} THEN _coerce_int(Field(item, FlatContextKeys[MinOf(flat)]))
      ELSE IF nested # {}
      THEN _coerce_int(Field(Field(item, NestedContextKeys[MinOf(nested)][1]),
                             NestedContextKeys[MinOf(nested)][2]))
      ELSE 0

\* lines 388-401: the item passes the filter
IsFreeItem(item) ==
  /\ TextOr(item, "id", <<>>) # <<>>
  /\ ~NotZero(_to_float(Field(Field(item, "pricing"), "prompt")))
  /\ ~NotZero(_to_float(Field(Field(item, "pricing"), "completion")))
  /\ _has_free_keyword(TextOr(item, "id", <<>>), TextOr(item, "name", <<>>))

\* lines 403-410
CandidateOf(item) ==
  [id             |-> TextOr(item, "id", <<>>),
   name           |-> TextOr(item, "name", TextOr(item, "id", <<>>)),
   context_tokens |-> _extract_context_length(item)]

\* the printable ASCII characters in code order (without quotes and the backslash)
AsciiOrder ==
  <<" ", "!", "#", "$", "%", "&", "'", "(", ")", "*", "+", ",", "-", ".", "/",
    "0", "1", "2", "3", "4", "5", "6", "7", "8", "9", ":", ";", "<", "=", ">", "?",
    "@", "A", "B", "C", "D", "E", "F", "G", "H", "I", "J", "K", "L", "M", "N", "O",
    "P", "Q", "R", "S", "T", "U", "V", "W", "X", "Y", "Z", "[", "]", "^", "_",
    "a", "b", "c", "d", "e", "f", "g", "h", "i", "j", "k", "l", "m", "n", "o",
    "p", "q", "r", "s", "t", "u", "v", "w", "x", "y", "z", "{", "|", "}", "~">>

Ord(c) == CHOOSE k \in 1..Len(AsciiOrder) : AsciiOrder[k] = c

\* a < b on Python strings
RECURSIVE StrLess(_, _)
StrLess(a, b) ==
  IF b = <<>> THEN FALSE
  ELSE IF a = <<>> THEN TRUE
  ELSE IF Head(a) # Head(b) THEN Ord(Head(a)) < Ord(Head(b))
  ELSE StrLess(Tail(a), Tail(b))

\* a sort key without the id
KeyLessByContextOnly(a, b) == a.context_tokens > b.context_tokens

\* the sort key (-int(context_tokens), id) of a is smaller than that of b
KeyLess(a, b) ==
  \/ a.context_tokens > b.context_tokens
  \/ a.context_tokens = b.context_tokens /\ StrLess(a.id, b.id)

\* list.sort is stable: x goes after the entries whose key is not greater
InsertSorted(sorted, x) ==
  LET after == {k \in 1..Len(sorted) : KeyLess(x, sorted[k])}
      at    == IF after = {} THEN Len(sorted) + 1 ELSE MinOf(after)
  IN  Take(sorted, at - 1) \o <<x>> \o Drop(sorted, at - 1)

RECURSIVE SortCandidates(_)
SortCandidates(cands) ==
  IF cands = <<>> THEN <<>>
  ELSE InsertSorted(SortCandidates(Take(cands, Len(cands) - 1)), cands[Len(cands)])

\* lines 386-412: the ranked candidates of a catalogue payload
RECURSIVE FilterItems(_)
FilterItems(items) ==
  IF items = <<>> THEN <<>>
  ELSE (IF IsFreeItem(Head(items)) THEN <<CandidateOf(Head(items))>> ELSE <<>>)
         \o FilterItems(Tail(items))

RankedCandidates(items) == SortCandidates(FilterItems(items))

\* InvokeResponse for each response, computed once; the model id only appears in
\* a Success, as its model_id field
OutcomeOf == [response \in Responses |-> InvokeResponse(NoText, response)]

\* _invoke_model lines 195-243, with the credential present
_invoke_model(model_id, response) ==
  IF OutcomeOf[response].success
  THEN [OutcomeOf[response] EXCEPT !.model_id = model_id]
  ELSE OutcomeOf[response]

(***************************************************************************)
(* What the catalogue endpoint can answer.                                 *)
(***************************************************************************)
\* catalogue items
Item ==
  [X |->
     JObj([id |-> JStr(<<"x", ":", "f", "r", "e", "e">>), name |-> JStr(<<"X">>), pricing |-> JObj([prompt |-> JStr(<<"0">>), completion |-> JStr(<<"0">>)]), context_length |-> JNum(1000)]),
   Y |->
     JObj([id |-> JStr(<<"y", ":", "f", "r", "e", "e">>), name |-> JStr(<<"Y">>), pricing |-> JObj([prompt |-> JStr(<<"0">>), completion |-> JStr(<<"0">>)]), context_length |-> JNum(5000)]),
   P |->
     JObj([id |-> JStr(<<"p", ":", "b", "e", "t", "a">>), name |-> JStr(<<"P", " ", "(", "f", "r", "e", "e", ")">>), pricing |-> JObj([prompt |-> JStr(<<"0">>), completion |-> JStr(<<"0">>)]), context_length |-> JNum(1000)]),
   Z |->
     JObj([id |-> JStr(<<"z", ":", "f", "r", "e", "e">>), name |-> JStr(<<"Z">>), pricing |-> JObj([prompt |-> JStr(<<"0", ".", "5">>), completion |-> JStr(<<"0">>)]), context_length |-> JNum(9000)]),
   \* no pricing at all
   M |->
     JObj([id |-> JStr(<<"m", ":", "f", "r", "e", "e">>), name |-> JStr(<<"M">>), context_length |-> JNum(9000)]),
   \* a price that is not a number
   N |->
     JObj([id |-> JStr(<<"n", ":", "f", "r", "e", "e">>), name |-> JStr(<<"N">>), pricing |-> JObj([prompt |-> JStr(<<"f", "r", "e", "e">>), completion |-> JStr(<<"0">>)]), context_length |-> JNum(9000)]),
   \* no completion price, a null prompt price
   W |->
     JObj([id |-> JStr(<<"w", ":", "f", "r", "e", "e">>), name |-> JStr(<<"W">>), pricing |-> JObj([prompt |-> JNull]), context_length |-> JNum(9000)]),
   \* costs nothing, but neither its id nor its name says so
   U |->
     JObj([id |-> JStr(<<"u", ":", "p", "r", "o">>), name |-> JStr(<<"U">>), pricing |-> JObj([prompt |-> JNum(0), completion |-> JStr(<<"0", ".", "0">>)]), context_length |-> JNum(9000)])]

CatalogNone == <<>>

CatalogXY == <<Item.X, Item.Y>>

\* x:free is listed before p:beta, which has the same context length; the other
\* items do not pass the filter
CatalogMixed ==
  <<Item.X, Item.Z, Item.M, Item.P, Item.N, Item.W, Item.U, Item.Y>>

Catalogs == {CatalogNone, CatalogXY, CatalogMixed}

\* the GET fails (transport, HTTP status, unparsable body) or yields a catalogue
FetchResults ==
  {[ok |-> FALSE, data |-> <<>>]} \cup {[ok |-> TRUE, data |-> c] : c \in Catalogs}

(***************************************************************************)
(* The environment of the process (.env), read once at import.             *)
(***************************************************************************)
\* OPENROUTER_MODEL: a free id (as the built-in default is), a paid id, the empty string
DefaultModelSettings == {<<"x", ":", "f", "r", "e", "e">>, <<"g", "p", "t", "-", "4", "o">>, <<>>}

\* OPENROUTER_SMOKE_TEST_LIMIT after max(1, int(...))
MaxSmokeLimit == 2

\* operations started in one run of the process
MaxOps == 2

\* the tasks calling ask_ai (bot.py trumpjoke, on_message)
Users == {"user"}

\* the task running _perform_model_refresh (bot.py run_bot, refresh_free_models_task)
Refresher == "refresh_task"

Tasks == Users \cup {Refresher}

\* what ask_ai is called with: topic, system, user
AskArguments ==
  { [topic |-> "", system |-> "", user |-> ""],
    [topic |-> "", system |-> "custom system", user |-> "custom user"] }

DEFAULT_SYSTEM_PROMPT == "DEFAULT_SYSTEM_PROMPT"

SMOKE_TEST_SYSTEM_PROMPT == "SMOKE_TEST_SYSTEM_PROMPT"

SMOKE_TEST_USER_PROMPT == "SMOKE_TEST_USER_PROMPT"

\* temperature and top_p in hundredths
ProductionSampling == [temperature |-> 90, top_p |-> 90, max_tokens |-> 256]

SmokeSampling == [temperature |-> 80, top_p |-> 85, max_tokens |-> 120]

(***************************************************************************)
(* The user-facing strings of ask_ai.                                      *)
(***************************************************************************)
SAFE_FALLBACK_MESSAGE == "no free model is available right now, try again later"

RateLimitMessage == "too many people are using TrumpBot, wait a moment (rate limit)"

RefusalMessage == "the current model refused to generate content, try again later"

AbnormalOutputMessage == "the model output was abnormal, try again later"

EmptyContentMessage == "the model returned no valid content, or too short an output"

InvalidResponseMessage == "the model returned an invalid response, try again later"

RequestFailedMessage == "the AI request failed, try again later"

ModelErrorMessage(detail) == "model error: " \o detail

(***************************************************************************)
(* State.                                                                  *)
(***************************************************************************)
VARIABLES
  OPENROUTER_API_KEY,        \* TRUE when the credential is configured
  DEFAULT_MODEL,             \* the default model id, "" when there is none
  AUTO_SELECT_FREE_MODEL,
  SMOKE_TEST_LIMIT,
  SMOKE_TEST_DELAY_SECONDS,  \* 0 or 1: whether the loops sleep between attempts
  _current_model,            \* the active model id, "" when there is none
  _free_model_cache,         \* the ranked candidates of the last fetched catalogue
  tasks,                     \* the coroutine of each task: position and locals
  alive,                     \* FALSE once check_memory_and_exit has ended the process
  started,                   \* operations started so far
  verified,                  \* model ids an invocation returned Success for
  overtaken,                 \* per task: the request (by number) of its smoke test
                             \* during which another task's fallback switched the
                             \* active model, 0 when there is none
  _playwright,               \* bot.py: 0 for None, 1 for the started Playwright
  _browser,                  \* bot.py: 0 for None, else the number of a launched browser
  _browser_lock,             \* bot.py: 0 for None, else the number of an asyncio.Lock
  locks,                     \* the asyncio.Lock objects made so far: holder and waiters
  browsers,                  \* per launched browser: is_connected()
  callers,                   \* the browser coroutine of each task: position and locals
  calls                      \* calls of _ensure_browser and _shutdown_playwright so far

config == <<OPENROUTER_API_KEY, DEFAULT_MODEL, AUTO_SELECT_FREE_MODEL, SMOKE_TEST_LIMIT,
            SMOKE_TEST_DELAY_SECONDS>>

vars == <<OPENROUTER_API_KEY, DEFAULT_MODEL, AUTO_SELECT_FREE_MODEL, SMOKE_TEST_LIMIT,
          SMOKE_TEST_DELAY_SECONDS, _current_model, _free_model_cache, tasks, alive,
          started, verified, overtaken, _playwright, _browser, _browser_lock, locks,
          browsers, callers, calls>>

playwright_vars == <<_playwright, _browser, _browser_lock, locks, browsers, callers, calls>>

\* the tasks that use the browser: two commands and run_bot's finally clause
Commands == {"trump_1", "trump_2"}

Closer == "run_bot"

BrowserTasks == Commands \cup {Closer}

IdleCaller == [pc |-> "idle", op |-> "none", lock |-> 0, closing |-> 0, ret |-> 0]

\* bot.py lines 45-47
InitBrowser ==
  /\ _playwright = 0
  /\ _browser = 0
  /\ _browser_lock = 0
  /\ locks = <<>>
  /\ browsers = <<>>
  /\ callers = [t \in BrowserTasks |-> IdleCaller]
  /\ calls = 0

NoOutcome == Failure("<unset>", None, 0)

NoWinner == [id |-> <<>>, name |-> <<>>, context_tokens |-> 0]

\* what an operation handed to its caller
NoReturn == [kind |-> "none", msg |-> "", text |-> NoText, list |-> <<>>]

ReturnMessage(m) == [kind |-> "message", msg |-> m, text |-> NoText, list |-> <<>>]

ReturnContent(text) == [kind |-> "content", msg |-> "", text |-> text, list |-> <<>>]

ReturnList(l) == [kind |-> "list", msg |-> "", text |-> NoText, list |-> l]

ReturnRaise(exc) == [kind |-> "raise", msg |-> exc, text |-> NoText, list |-> <<>>]

\* a coroutine that is not running
IdleTask ==
  [pc                  |-> "idle",
   op                  |-> "none",
   model_id            |-> NoText,      \* ask_ai
   system_prompt       |-> "",
   user_prompt         |-> "",
   result              |-> NoOutcome,
   exclude_ids         |-> {},          \* _try_model_fallback
   fallback_candidates |-> <<>>,
   attempts            |-> 0,
   last_failure        |-> NoOutcome,
   fallback_result     |-> NoOutcome,
   fallbacks           |-> 0,           \* calls of _try_model_fallback so far
   refreshes           |-> 0,           \* calls of refresh_free_models so far
   fetched             |-> "none",      \* how its GET ended: "ok", "failed"
   selected            |-> <<>>,        \* _select_working_model
   index               |-> 0,
   requests            |-> <<>>,        \* the completion requests issued so far
   response            |-> NoResponse,  \* _invoke_model: what the last POST came back with
   outcome             |-> NoOutcome,   \*   and what the call returned for it
   ret                 |-> NoReturn]

Init ==
  /\ OPENROUTER_API_KEY \in BOOLEAN
  /\ AUTO_SELECT_FREE_MODEL \in BOOLEAN
  /\ SMOKE_TEST_LIMIT \in 1..MaxSmokeLimit
  /\ SMOKE_TEST_DELAY_SECONDS \in {0, 1}
  /\ \E setting \in DefaultModelSettings :
       \* lines 117-125
       IF setting # <<>> /\ _has_free_keyword(setting, <<>>)
       THEN _current_model = setting /\ DEFAULT_MODEL = setting
       ELSE _current_model = <<>> /\ DEFAULT_MODEL = <<>>
  /\ _free_model_cache = <<>>
  /\ tasks = [t \in Tasks |-> IdleTask]
  /\ alive = TRUE
  /\ started = 0
  /\ verified = {}
  /\ overtaken = [t \in Tasks |-> 0]
  /\ InitBrowser

(***************************************************************************)
(* The coroutines.  A coroutine runs from one await to the next without    *)
(* interruption; each operator below is one such stretch of code, as a     *)
(* function of S = [current, cache, task]: the two globals and the running *)
(* task's locals.                                                          *)
(***************************************************************************)
_set_current_model(current, model_id, model_name) ==
  LET id == strip(model_id)
  IN  IF id = <<>> THEN current
      ELSE IF ~_has_free_keyword(id, model_name) THEN current
      ELSE id

get_free_model_cache(cache) == cache

\* the operation ends: it returns ret, or an exception leaves it
Finish(S, pc, ret) == [S EXCEPT !.task.pc = pc, !.task.ret = ret]

\* _invoke_model lines 174-194: the POST is sent and the coroutine awaits it
SendRequest(S, pc, site, model_id, system, user, sampling) ==
  [S EXCEPT !.task.pc = pc,
            !.task.response = NoResponse,
            !.task.outcome = NoOutcome,
            !.task.requests = Append(@, [site |-> site, model |-> model_id,
                                         system |-> system, user |-> user,
                                         sampling |-> sampling])]

\* AskAfterFallback choosing the message by the fallback's own failure
AskAfterFallbackByLastFailure(S, fallback_result) ==
  LET S1 == [S EXCEPT !.task.fallback_result = fallback_result]
  IN  IF fallback_result.raised # None
      THEN Finish(S1, "raised", ReturnRaise(fallback_result.raised))
      ELSE IF fallback_result.success
      THEN Finish(S1, "done", ReturnContent(fallback_result.content))
      ELSE IF fallback_result.code = "429"
      THEN Finish(S1, "done", ReturnMessage(RateLimitMessage))
      ELSE IF fallback_result.detail = "refusal"
      THEN Finish(S1, "done", ReturnMessage(RefusalMessage))
      ELSE Finish(S1, "done", ReturnMessage(AbnormalOutputMessage))

\* ask_ai lines 592-612: _try_model_fallback has returned fallback_result
AskAfterFallback(S, fallback_result) ==
  LET S1 == [S EXCEPT !.task.fallback_result = fallback_result]
  IN  IF fallback_result.raised # None
      THEN Finish(S1, "raised", ReturnRaise(fallback_result.raised))
      ELSE IF fallback_result.success
      THEN Finish(S1, "done", ReturnContent(fallback_result.content))
      ELSE IF S.task.result.code = "429"
      THEN Finish(S1, "done", ReturnMessage(RateLimitMessage))
      ELSE IF S.task.result.detail = "refusal"
      THEN Finish(S1, "done", ReturnMessage(RefusalMessage))
      ELSE Finish(S1, "done", ReturnMessage(AbnormalOutputMessage))

\* FallbackExhausted returning the generic failure whatever the attempts gave
FallbackExhaustedGeneric(S) ==
  AskAfterFallback(S, Failure("rate_limit_no_fallback", None, 0))

\* _try_model_fallback line 365
FallbackExhausted(S) ==
  AskAfterFallback(S, IF S.task.last_failure # NoOutcome THEN S.task.last_failure
                      ELSE Failure("rate_limit_no_fallback", None, 0))

RECURSIVE FallbackAttempt(_)

\* FallbackAfterInvoke returning the Success without switching the active model
FallbackAfterInvokeNoSwitch(S, result) ==
  IF result.raised # None THEN AskAfterFallback(S, result)
  ELSE IF result.success THEN AskAfterFallback(S, result)
  ELSE LET S1 == [S EXCEPT !.task.last_failure = result]
       IN  IF SMOKE_TEST_DELAY_SECONDS # 0
           THEN [S1 EXCEPT !.task.pc = "fallback_sleep"]
           ELSE FallbackAttempt(S1)

\* FallbackAfterInvoke going on to the next entry after a Success
FallbackAfterInvokeGoesOn(S, result) ==
  LET entry == S.task.fallback_candidates[S.task.attempts]
  IN  IF result.raised # None THEN AskAfterFallback(S, result)
      ELSE IF result.success
      THEN FallbackAttempt(
             [S EXCEPT !.current =
                _set_current_model(@, entry.id,
                                   IF entry.name # <<>> THEN entry.name ELSE entry.id)])
      ELSE LET S1 == [S EXCEPT !.task.last_failure = result]
           IN  IF SMOKE_TEST_DELAY_SECONDS # 0
               THEN [S1 EXCEPT !.task.pc = "fallback_sleep"]
               ELSE FallbackAttempt(S1)

\* _try_model_fallback lines 349-363: the attempt's _invoke_model has returned
FallbackAfterInvoke(S, result) ==
  LET entry == S.task.fallback_candidates[S.task.attempts]
  IN  IF result.raised # None THEN AskAfterFallback(S, result)
      ELSE IF result.success
      THEN AskAfterFallback(
             [S EXCEPT !.current =
                _set_current_model(@, entry.id,
                                   IF entry.name # <<>> THEN entry.name ELSE entry.id)],
             result)
      ELSE LET S1 == [S EXCEPT !.task.last_failure = result]
           IN  IF SMOKE_TEST_DELAY_SECONDS # 0
               THEN [S1 EXCEPT !.task.pc = "fallback_sleep"]
               ELSE FallbackAttempt(S1)

\* FallbackAttempt without the test of line 335
FallbackAttemptUncapped(S) ==
  LET attempts == S.task.attempts + 1
      S1       == [S EXCEPT !.task.attempts = attempts]
  IN  IF attempts > Len(S.task.fallback_candidates) THEN FallbackExhausted(S)
      ELSE IF ~OPENROUTER_API_KEY THEN FallbackAfterInvoke(S1, MissingKeyOutcome)
      ELSE SendRequest(S1, "fallback_invoke", "fallback",
                       S.task.fallback_candidates[attempts].id,
                       S.task.system_prompt, S.task.user_prompt, ProductionSampling)

\* _try_model_fallback lines 333-348: the loop takes its next entry
FallbackAttempt(S) ==
  LET attempts == S.task.attempts + 1
      S1       == [S EXCEPT !.task.attempts = attempts]
  IN  IF attempts > Len(S.task.fallback_candidates) THEN FallbackExhausted(S)
      ELSE IF SMOKE_TEST_LIMIT # 0 /\ attempts > SMOKE_TEST_LIMIT
      THEN FallbackExhausted(S1)
      ELSE IF ~OPENROUTER_API_KEY THEN FallbackAfterInvoke(S1, MissingKeyOutcome)
      ELSE SendRequest(S1, "fallback_invoke", "fallback",
                       S.task.fallback_candidates[attempts].id,
                       S.task.system_prompt, S.task.user_prompt, ProductionSampling)

\* [entry for entry in candidates if entry.get("id") not in exclude_ids]
NotExcluded(candidates, exclude_ids) ==
  SelectSeq(candidates, LAMBDA entry : entry.id \notin exclude_ids)

\* _try_model_fallback lines 327-331, with the retry set computed
FallbackStart(S, fallback_candidates) ==
  IF fallback_candidates = <<>>
  THEN AskAfterFallback(S, Failure("no_fallback_models", None, 0))
  ELSE FallbackAttempt([S EXCEPT !.task.fallback_candidates = fallback_candidates,
                                 !.task.attempts = 0,
                                 !.task.last_failure = NoOutcome])

\* RefreshReturn handing _try_model_fallback the refreshed list as it is
RefreshReturnUnfiltered(S, candidates) ==
  IF S.task.op = "refresh" THEN Finish(S, "done", ReturnList(candidates))
  ELSE FallbackStart(S, candidates)

\* refresh_free_models returns candidates: to _perform_model_refresh, or to
\* _try_model_fallback line 325
RefreshReturn(S, candidates) ==
  IF S.task.op = "refresh" THEN Finish(S, "done", ReturnList(candidates))
  ELSE FallbackStart(S, NotExcluded(candidates, S.task.exclude_ids))

\* refresh_free_models lines 424-440: _select_working_model has returned winner
RefreshAfterSelect(S, winner) ==
  LET current == IF winner # NoWinner
                 THEN _set_current_model(S.current, winner.id, winner.name)
                 ELSE <<>>
  IN  RefreshReturn([S EXCEPT !.current = current], get_free_model_cache(S.cache))

RECURSIVE SmokeProbe(_)

\* _select_working_model: the loop of line 269 moves on
SmokeNext(S) ==
  IF S.task.index < Len(S.task.selected)
  THEN SmokeProbe([S EXCEPT !.task.index = @ + 1])
  ELSE RefreshAfterSelect(S, NoWinner)

\* SmokeAfterInvoke probing the whole working set and keeping the last Success
SmokeAfterInvokeKeepsProbing(S, result) ==
  IF result.raised # None THEN Finish(S, "raised", ReturnRaise(result.raised))
  ELSE IF result.success /\ S.task.index >= Len(S.task.selected)
  THEN RefreshAfterSelect(S, S.task.selected[S.task.index])
  ELSE IF S.task.index < Len(S.task.selected) /\ SMOKE_TEST_DELAY_SECONDS # 0
  THEN [S EXCEPT !.task.pc = "smoke_sleep"]
  ELSE SmokeNext(S)

\* _select_working_model lines 286-304: the probe's _invoke_model has returned
SmokeAfterInvoke(S, result) ==
  IF result.raised # None THEN Finish(S, "raised", ReturnRaise(result.raised))
  ELSE IF result.success THEN RefreshAfterSelect(S, S.task.selected[S.task.index])
  ELSE IF S.task.index < Len(S.task.selected) /\ SMOKE_TEST_DELAY_SECONDS # 0
  THEN [S EXCEPT !.task.pc = "smoke_sleep"]
  ELSE SmokeNext(S)

\* _select_working_model lines 269-285: the probe of selected[index]
SmokeProbe(S) ==
  IF ~OPENROUTER_API_KEY THEN SmokeAfterInvoke(S, MissingKeyOutcome)
  ELSE SendRequest(S, "smoke_invoke", "smoke", S.task.selected[S.task.index].id,
                   SMOKE_TEST_SYSTEM_PROMPT, SMOKE_TEST_USER_PROMPT, SmokeSampling)

\* _select_working_model lines 260-267: entries k.. of candidates join selected
RECURSIVE FillSelected(_, _, _)
FillSelected(candidates, k, selected) ==
  IF k > Len(candidates) THEN selected
  ELSE IF \E j \in 1..Len(selected) : selected[j].id = candidates[k].id
  THEN FillSelected(candidates, k + 1, selected)
  ELSE IF Len(selected) + 1 >= SMOKE_TEST_LIMIT
  THEN Append(selected, candidates[k])
  ELSE FillSelected(candidates, k + 1, Append(selected, candidates[k]))

\* _select_working_model lines 250-267: the working set
WorkingSet(candidates, current) ==
  LET same  == {k \in 1..Len(candidates) : candidates[k].id = current}
      first == IF current # <<>> /\ same # {} THEN <<candidates[MinOf(same)]>> ELSE <<>>
  IN  FillSelected(candidates, 1, first)

_select_working_model(S, candidates) ==
  IF candidates = <<>> THEN RefreshAfterSelect(S, NoWinner)
  ELSE SmokeProbe([S EXCEPT !.task.selected = WorkingSet(candidates, S.current),
                            !.task.index = 1])

\* RefreshAfterFetch emptying the cache and the selection when the GET has failed
RefreshAfterFetchClearsOnFailure(S, fetched) ==
  IF ~fetched.ok
  THEN RefreshReturn([S EXCEPT !.task.fetched = "failed", !.cache = <<>>,
                               !.current = <<>>], <<>>)
  ELSE LET candidates == RankedCandidates(fetched.data)
           S1         == [S EXCEPT !.cache = candidates, !.task.fetched = "ok"]
       IN  IF candidates = <<>>
           THEN RefreshReturn([S1 EXCEPT !.current = <<>>], get_free_model_cache(S1.cache))
           ELSE IF AUTO_SELECT_FREE_MODEL THEN _select_working_model(S1, candidates)
           ELSE RefreshReturn(S1, get_free_model_cache(S1.cache))

\* refresh_free_models lines 382-423: the GET has come back
RefreshAfterFetch(S, fetched) ==
  IF ~fetched.ok THEN RefreshReturn([S EXCEPT !.task.fetched = "failed"], <<>>)
  ELSE LET candidates == RankedCandidates(fetched.data)
           S1         == [S EXCEPT !.cache = candidates, !.task.fetched = "ok"]
       IN  IF candidates = <<>>
           THEN RefreshReturn([S1 EXCEPT !.current = <<>>], get_free_model_cache(S1.cache))
           ELSE IF AUTO_SELECT_FREE_MODEL THEN _select_working_model(S1, candidates)
           ELSE RefreshReturn(S1, get_free_model_cache(S1.cache))

\* refresh_free_models lines 370-379
refresh_free_models(S) ==
  LET S1 == [S EXCEPT !.task.refreshes = @ + 1]
  IN  IF ~OPENROUTER_API_KEY THEN RefreshReturn(S1, <<>>)
      ELSE [S1 EXCEPT !.task.pc = "refresh_fetch"]

\* _try_model_fallback lines 318-325
_try_model_fallback(S, exclude) ==
  LET S1 == [S EXCEPT !.task.exclude_ids = exclude, !.task.fallbacks = @ + 1]
      fallback_candidates == NotExcluded(get_free_model_cache(S.cache), exclude)
  IN  IF fallback_candidates = <<>> THEN refresh_free_models(S1)
      ELSE FallbackStart(S1, fallback_candidates)

\* Python's truth value of a code
CodeSet(code) == code # None /\ code # ""

\* AskAfterInvoke calling _try_model_fallback with nothing excluded
AskAfterInvokeNoExclusion(S, result) ==
  LET S1 == [S EXCEPT !.task.result = result]
  IN  IF result.raised # None THEN Finish(S1, "raised", ReturnRaise(result.raised))
      ELSE IF result.success THEN Finish(S1, "done", ReturnContent(result.content))
      ELSE IF result.code = "429" THEN _try_model_fallback(S1, {})
      ELSE IF result.detail \in {"refusal", "reasoning_leak"}
      THEN _try_model_fallback(S1, {})
      ELSE IF result.detail = "empty_content"
      THEN Finish(S1, "done", ReturnMessage(EmptyContentMessage))
      ELSE IF result.detail = "invalid_response"
      THEN Finish(S1, "done", ReturnMessage(InvalidResponseMessage))
      ELSE IF CodeSet(result.code)
      THEN Finish(S1, "done", ReturnMessage(ModelErrorMessage(result.detail)))
      ELSE Finish(S1, "done", ReturnMessage(RequestFailedMessage))

\* AskAfterInvoke falling back on empty_content as it does on a refusal
AskAfterInvokeEagerFallback(S, result) ==
  LET S1 == [S EXCEPT !.task.result = result]
  IN  IF result.raised # None THEN Finish(S1, "raised", ReturnRaise(result.raised))
      ELSE IF result.success THEN Finish(S1, "done", ReturnContent(result.content))
      ELSE IF result.code = "429" THEN _try_model_fallback(S1, {S.task.model_id})
      ELSE IF result.detail \in {"refusal", "reasoning_leak", "empty_content"}
      THEN _try_model_fallback(S1, {S.task.model_id})
      ELSE IF result.detail = "invalid_response"
      THEN Finish(S1, "done", ReturnMessage(InvalidResponseMessage))
      ELSE IF CodeSet(result.code)
      THEN Finish(S1, "done", ReturnMessage(ModelErrorMessage(result.detail)))
      ELSE Finish(S1, "done", ReturnMessage(RequestFailedMessage))

\* ask_ai lines 576-627: the first _invoke_model has returned
AskAfterInvoke(S, result) ==
  LET S1 == [S EXCEPT !.task.result = result]
  IN  IF result.raised # None THEN Finish(S1, "raised", ReturnRaise(result.raised))
      ELSE IF result.success THEN Finish(S1, "done", ReturnContent(result.content))
      ELSE IF result.code = "429" THEN _try_model_fallback(S1, {S.task.model_id})
      ELSE IF result.detail \in {"refusal", "reasoning_leak"}
      THEN _try_model_fallback(S1, {S.task.model_id})
      ELSE IF result.detail = "empty_content"
      THEN Finish(S1, "done", ReturnMessage(EmptyContentMessage))
      ELSE IF result.detail = "invalid_response"
      THEN Finish(S1, "done", ReturnMessage(InvalidResponseMessage))
      ELSE IF CodeSet(result.code)
      THEN Finish(S1, "done", ReturnMessage(ModelErrorMessage(result.detail)))
      ELSE Finish(S1, "done", ReturnMessage(RequestFailedMessage))

\* ask_ai with the emptiness test of line 553 lost
ask_ai_empty_id_passes(S, topic, system, user) ==
  LET model_id      == IF S.current # <<>> THEN S.current ELSE DEFAULT_MODEL
      system_prompt == IF system # "" THEN system ELSE DEFAULT_SYSTEM_PROMPT
      user_prompt   == IF user # "" THEN user
                       ELSE "Write a Truth Social post about "
                              \o (IF topic # "" THEN topic ELSE "the fake news media")
                              \o "."
      S1            == [S EXCEPT !.task.model_id = model_id,
                                 !.task.system_prompt = system_prompt,
                                 !.task.user_prompt = user_prompt]
  IN  IF model_id # <<>> /\ ~_has_free_keyword(model_id, <<>>)
      THEN Finish(S, "done", ReturnMessage(SAFE_FALLBACK_MESSAGE))
      ELSE IF ~OPENROUTER_API_KEY THEN AskAfterInvoke(S1, MissingKeyOutcome)
      ELSE SendRequest(S1, "ask_invoke", "ask", model_id, system_prompt, user_prompt,
                       ProductionSampling)

\* ask_ai lines 552-574
ask_ai(S, topic, system, user) ==
  LET model_id      == IF S.current # <<>> THEN S.current ELSE DEFAULT_MODEL
      system_prompt == IF system # "" THEN system ELSE DEFAULT_SYSTEM_PROMPT
      user_prompt   == IF user # "" THEN user
                       ELSE "Write a Truth Social post about "
                              \o (IF topic # "" THEN topic ELSE "the fake news media")
                              \o "."
      S1            == [S EXCEPT !.task.model_id = model_id,
                                 !.task.system_prompt = system_prompt,
                                 !.task.user_prompt = user_prompt]
  IN  IF model_id = <<>> \/ ~_has_free_keyword(model_id, <<>>)
      THEN Finish(S, "done", ReturnMessage(SAFE_FALLBACK_MESSAGE))
      ELSE IF ~OPENROUTER_API_KEY THEN AskAfterInvoke(S1, MissingKeyOutcome)
      ELSE SendRequest(S1, "ask_invoke", "ask", model_id, system_prompt, user_prompt,
                       ProductionSampling)

(***************************************************************************)
(* Actions: a task starts an operation, or the await it is suspended at    *)
(* completes.                                                              *)
(***************************************************************************)
View(t) ==
  [current |-> _current_model, cache |-> _free_model_cache, task |-> tasks[t]]

Apply(t, S) ==
  /\ _current_model' = S.current
  /\ _free_model_cache' = S.cache
  /\ tasks' = [tasks EXCEPT ![t] = S.task]

\* no operation has just ended: its caller takes what it returned at once
Quiet == \A u \in Tasks : tasks[u].pc \notin {"done", "raised"}

CanStart(t) ==
  /\ alive
  /\ Quiet
  /\ tasks[t].pc = "idle"
  /\ started < MaxOps

Fresh(t, op) == [View(t) EXCEPT !.task = [IdleTask EXCEPT !.op = op]]

\* a user's command calls ask_ai (bot.py trumpjoke, on_message)
AskAi(t) ==
  /\ t \in Users
  /\ CanStart(t)
  /\ \E a \in AskArguments : Apply(t, ask_ai(Fresh(t, "ask"), a.topic, a.system, a.user))
  /\ started' = started + 1
  /\ UNCHANGED <<playwright_vars, config, alive, verified, overtaken>>

\* bot.py _perform_model_refresh: at startup and from refresh_free_models_task
PerformModelRefresh(t) ==
  /\ t = Refresher
  /\ CanStart(t)
  /\ Apply(t, refresh_free_models(Fresh(t, "refresh")))
  /\ started' = started + 1
  /\ UNCHANGED <<playwright_vars, config, alive, verified, overtaken>>

\* the model id of the request task t is waiting for
Pending(t) == tasks[t].requests[Len(tasks[t].requests)].model

\* no task but t is running an operation
Alone(t) == \A u \in Tasks \ {t} : tasks[u].pc = "idle"

\* _invoke_model lines 188-243 have turned response into result
Answered(t, response, result) ==
  [View(t) EXCEPT !.task.response = response, !.task.outcome = result]

\* _invoke_model returns result to the code that awaits it
Resume(t, response, result) ==
  /\ verified' = IF result.success THEN verified \cup {Pending(t)} ELSE verified
  /\ LET S == Answered(t, response, result)
     IN  CASE tasks[t].pc = "ask_invoke"      -> Apply(t, AskAfterInvoke(S, result))
           [] tasks[t].pc = "smoke_invoke"    -> Apply(t, SmokeAfterInvoke(S, result))
           [] tasks[t].pc = "fallback_invoke" -> Apply(t, FallbackAfterInvoke(S, result))
  /\ overtaken' =
       IF tasks[t].pc = "fallback_invoke" /\ _current_model' # _current_model
       THEN [u \in Tasks |->
               IF u # t /\ tasks[u].pc = "smoke_invoke" THEN Len(tasks[u].requests)
               ELSE overtaken[u]]
       ELSE overtaken

\* the POST of _invoke_model completes and check_memory_and_exit lets the process live
InvokeReturn(t, responses) ==
  /\ alive
  /\ Quiet
  /\ tasks[t].pc \in {"ask_invoke", "smoke_invoke", "fallback_invoke"}
  /\ \E response \in responses :
       Resume(t, response, _invoke_model(Pending(t), response))
  /\ UNCHANGED <<playwright_vars, config, alive, started>>

\* check_memory_and_exit lines 492-496: os._exit(0) ends the process and every task
MemoryExit(t) ==
  /\ alive
  /\ Quiet
  /\ tasks[t].pc \in {"ask_invoke", "smoke_invoke", "fallback_invoke"}
  /\ alive' = FALSE
  /\ tasks' = [u \in Tasks |-> IdleTask]
  /\ _current_model' = <<>>
  /\ _free_model_cache' = <<>>
  /\ overtaken' = [u \in Tasks |-> 0]
  /\ UNCHANGED <<playwright_vars, config, started, verified>>

\* the GET of refresh_free_models completes
FetchReturn(t) ==
  /\ alive
  /\ Quiet
  /\ tasks[t].pc = "refresh_fetch"
  /\ \E fetched \in FetchResults : Apply(t, RefreshAfterFetch(View(t), fetched))
  /\ UNCHANGED <<playwright_vars, config, alive, started, verified, overtaken>>

\* asyncio.sleep(SMOKE_TEST_DELAY_SECONDS) completes
SleepReturn(t) ==
  /\ alive
  /\ Quiet
  /\ \/ tasks[t].pc = "smoke_sleep" /\ Apply(t, SmokeNext(View(t)))
     \/ tasks[t].pc = "fallback_sleep" /\ Apply(t, FallbackAttempt(View(t)))
  /\ UNCHANGED <<playwright_vars, config, alive, started, verified, overtaken>>

\* the caller of the operation that ended goes on with what it returned
Return(t) ==
  /\ tasks[t].pc \in {"done", "raised"}
  /\ tasks' = [tasks EXCEPT ![t] = IdleTask]
  /\ overtaken' = [overtaken EXCEPT ![t] = 0]
  /\ UNCHANGED <<playwright_vars, config, _current_model, _free_model_cache, alive, started, verified>>

\* the commands of the users and the scheduled refresh overlap
Next ==
  \E t \in Tasks :
    \/ AskAi(t)
    \/ PerformModelRefresh(t)
    \/ InvokeReturn(t, CoreResponses)
    \/ MemoryExit(t)
    \/ FetchReturn(t)
    \/ SleepReturn(t)
    \/ Return(t)

Spec == Init /\ [][Next]_vars

\* one operation at a time, the provider answering anything it can
NextSolo ==
  \E t \in Tasks :
    \/ Alone(t) /\ AskAi(t)
    \/ Alone(t) /\ PerformModelRefresh(t)
    \/ Alone(t) /\ InvokeReturn(t, Responses)
    \/ Alone(t) /\ MemoryExit(t)
    \/ Alone(t) /\ FetchReturn(t)
    \/ Alone(t) /\ SleepReturn(t)
    \/ Alone(t) /\ Return(t)

SpecSolo == Init /\ [][NextSolo]_vars

(***************************************************************************)
(* The shared browser of bot.py.  Each operator is a stretch of code from  *)
(* one await to the next, as a function of G: the three globals, the lock  *)
(* and browser objects, and the running task (name) with its locals.       *)
(***************************************************************************)
MaxBrowserCalls == 4

assistant_vars == <<config, _current_model, _free_model_cache, tasks, alive, started,
                    verified, overtaken>>

BrowserView(t) ==
  [playwright |-> _playwright, browser |-> _browser, lock |-> _browser_lock,
   locks |-> locks, browsers |-> browsers, name |-> t, task |-> callers[t]]

BrowserApply(t, G) ==
  /\ _playwright' = G.playwright
  /\ _browser' = G.browser
  /\ _browser_lock' = G.lock
  /\ locks' = G.locks
  /\ browsers' = G.browsers
  /\ callers' = [callers EXCEPT ![t] = G.task]

\* the end of an "async with" block: Lock.release
Release(G) == [G EXCEPT !.locks[G.task.lock].holder = "free"]

\* lines 57-58 and 74: return _browser
EnsureReturn(G) == [Release(G) EXCEPT !.task.pc = "done", !.task.ret = G.browser]

\* lines 67-69
EnsureLaunch(G) ==
  IF G.playwright = 0 THEN [G EXCEPT !.task.pc = "starting"]
  ELSE [G EXCEPT !.task.pc = "launching"]

\* lines 57-65, the lock held
EnsureEntered(G) ==
  IF G.browser # 0 /\ G.browsers[G.browser] THEN EnsureReturn(G)
  ELSE IF G.browser # 0
       THEN [G EXCEPT !.task.pc = "closing", !.task.closing = G.browser]
       ELSE EnsureLaunch(G)

\* lines 95-96: the lock released, then _browser_lock = None
ShutdownExit(G) == [Release(G) EXCEPT !.lock = 0, !.task.pc = "done"]

\* lines 89-94
ShutdownStop(G) ==
  IF G.playwright # 0 THEN [G EXCEPT !.task.pc = "stopping"] ELSE ShutdownExit(G)

\* lines 82-88, the lock held
ShutdownEntered(G) ==
  IF G.browser # 0
  THEN [G EXCEPT !.task.pc = "closing", !.task.closing = G.browser]
  ELSE ShutdownStop(G)

Entered(G) == IF G.task.op = "ensure" THEN EnsureEntered(G) ELSE ShutdownEntered(G)

\* "async with": Lock.acquire takes a lock that is free and has no waiter, and
\* queues behind the holder and the waiters otherwise
Acquire(G) ==
  LET l == G.task.lock
  IN  IF G.locks[l].holder = "free" /\ G.locks[l].waiters = <<>>
      THEN Entered([G EXCEPT !.locks[l].holder = G.name])
      ELSE [G EXCEPT !.locks[l].waiters = Append(@, G.name), !.task.pc = "wait_lock"]

\* lines 50-56
_ensure_browser(G) ==
  LET G1 == IF G.lock = 0
            THEN [G EXCEPT !.locks = Append(@, [holder |-> "free", waiters |-> <<>>]), !.lock = Len(G.locks) + 1]
            ELSE G
  IN  Acquire([G1 EXCEPT !.task.lock = G1.lock])

\* lines 77-81: lock = _browser_lock or asyncio.Lock()
_shutdown_playwright(G) ==
  IF G.lock # 0
  THEN Acquire([G EXCEPT !.task.lock = G.lock])
  ELSE Acquire([G EXCEPT !.locks = Append(@, [holder |-> "free", waiters |-> <<>>]), !.task.lock = Len(G.locks) + 1])

\* get_trump_posts line 211
EnsureBrowser(t) ==
  /\ t \in Commands
  /\ callers[t].pc = "idle"
  /\ calls < MaxBrowserCalls
  /\ BrowserApply(t, _ensure_browser([BrowserView(t) EXCEPT !.task.op = "ensure"]))
  /\ calls' = calls + 1
  /\ UNCHANGED assistant_vars

\* run_bot line 409
ShutdownPlaywright(t) ==
  /\ t = Closer
  /\ callers[t].pc = "idle"
  /\ calls < MaxBrowserCalls
  /\ BrowserApply(t, _shutdown_playwright([BrowserView(t) EXCEPT !.task.op = "shutdown"]))
  /\ calls' = calls + 1
  /\ UNCHANGED assistant_vars

\* the first waiter of a released lock is woken and holds it
LockAcquired(t) ==
  /\ callers[t].pc = "wait_lock"
  /\ LET l == callers[t].lock
     IN  /\ locks[l].holder = "free"
         /\ Head(locks[l].waiters) = t
         /\ BrowserApply(t, Entered([BrowserView(t) EXCEPT
                                       !.locks[l].holder = t,
                                       !.locks[l].waiters = Tail(@)]))
  /\ UNCHANGED <<assistant_vars, calls>>

\* await _browser.close() is over, raised or not: _browser = None (lines 60-65, 83-88)
CloseReturn(t) ==
  /\ callers[t].pc = "closing"
  /\ LET G == [BrowserView(t) EXCEPT !.browsers[callers[t].closing] = FALSE,
                                     !.browser = 0]
     IN  BrowserApply(t, IF G.task.op = "ensure" THEN EnsureLaunch(G)
                         ELSE ShutdownStop(G))
  /\ UNCHANGED <<assistant_vars, calls>>

\* line 68: await async_playwright().start() is over; an exception leaves the
\* "async with" block
StartReturn(t) ==
  /\ callers[t].pc = "starting"
  /\ LET G == BrowserView(t)
     IN  \/ BrowserApply(t, [G EXCEPT !.playwright = 1, !.task.pc = "launching"])
         \/ BrowserApply(t, [Release(G) EXCEPT !.task.pc = "raised"])
  /\ UNCHANGED <<assistant_vars, calls>>

\* lines 69-74: await _playwright.chromium.launch(...) is over
LaunchReturn(t) ==
  /\ callers[t].pc = "launching"
  /\ LET G == BrowserView(t)
     IN  \/ BrowserApply(t, EnsureReturn([G EXCEPT !.browsers = Append(@, TRUE),
                                                   !.browser = Len(G.browsers) + 1]))
         \/ BrowserApply(t, [Release(G) EXCEPT !.task.pc = "raised"])
  /\ UNCHANGED <<assistant_vars, calls>>

\* lines 90-94: await _playwright.stop() is over, raised or not
StopReturn(t) ==
  /\ callers[t].pc = "stopping"
  /\ BrowserApply(t, ShutdownExit([BrowserView(t) EXCEPT !.playwright = 0]))
  /\ UNCHANGED <<assistant_vars, calls>>

\* a launched browser crashes or is closed from outside: is_connected() turns False
Disconnect ==
  /\ \E b \in 1..Len(browsers) :
       /\ browsers[b]
       /\ browsers' = [browsers EXCEPT ![b] = FALSE]
  /\ UNCHANGED <<assistant_vars, _playwright, _browser, _browser_lock, locks, callers,
                 calls>>

\* the caller goes on with the browser it was given, or with the exception
CallerReturn(t) ==
  /\ callers[t].pc \in {"done", "raised"}
  /\ callers' = [callers EXCEPT ![t] = IdleCaller]
  /\ UNCHANGED <<assistant_vars, _playwright, _browser, _browser_lock, locks, browsers,
                 calls>>

\* the assistant at rest while the browser tasks run
InitPlaywright ==
  /\ OPENROUTER_API_KEY = TRUE
  /\ AUTO_SELECT_FREE_MODEL = TRUE
  /\ SMOKE_TEST_LIMIT = 1
  /\ SMOKE_TEST_DELAY_SECONDS = 0
  /\ DEFAULT_MODEL = <<>>
  /\ _current_model = <<>>
  /\ _free_model_cache = <<>>
  /\ tasks = [t \in Tasks |-> IdleTask]
  /\ alive = TRUE
  /\ started = 0
  /\ verified = {}
  /\ overtaken = [t \in Tasks |-> 0]
  /\ InitBrowser

NextPlaywright ==
  \/ \E t \in BrowserTasks :
       \/ EnsureBrowser(t)
       \/ ShutdownPlaywright(t)
       \/ LockAcquired(t)
       \/ CloseReturn(t)
       \/ StartReturn(t)
       \/ LaunchReturn(t)
       \/ StopReturn(t)
       \/ CallerReturn(t)
  \/ Disconnect

SpecPlaywright == InitPlaywright /\ [][NextPlaywright]_vars

(***************************************************************************)
(* The properties.                                                         *)
(***************************************************************************)
\* model_id contains the free-tier marker
FreeId(model_id) == contains(lower(model_id), FreeKeyword)

\* the completion requests task t has issued in its running operation
Requested(t) == {tasks[t].requests[k] : k \in 1..Len(tasks[t].requests)}

\* task t starts a call of ask_ai in this step
AskStarts(t) == tasks[t].pc = "idle" /\ tasks'[t].pc # "idle"

\* C1: in every reachable state a non-empty active model id is one that a
\* completion invocation returned Success for earlier in this process.
ActiveModelIsVerified == _current_model # <<>> => _current_model \in verified

\* C2: no completion request is ever issued against a model id that does not
\* contain "free", and no such id is ever the active model id.
OnlyFreeIdsUsed ==
  /\ \A t \in Tasks : \A request \in Requested(t) : FreeId(request.model)
  /\ _current_model # <<>> => FreeId(_current_model)

\* C3: a call of ask_ai that starts while the active model id is empty issues no
\* completion request and returns the safe-fallback message.
EmptyActiveDisablesAi ==
  [][\A t \in Users :
       AskStarts(t) /\ _current_model = <<>>
         => /\ tasks'[t].pc = "done"
            /\ tasks'[t].ret = ReturnMessage(SAFE_FALLBACK_MESSAGE)
            /\ tasks'[t].requests = <<>>]_vars

\* C4: a call of ask_ai that starts while the active and the default model id are
\* both empty returns the safe-fallback message at once, whatever its arguments:
\* no completion request, no catalogue fetch, no change of the selection.
NoModelNoNetwork ==
  [][\A t \in Users :
       AskStarts(t) /\ _current_model = <<>> /\ DEFAULT_MODEL = <<>>
         => /\ tasks'[t].pc = "done"
            /\ tasks'[t].ret = ReturnMessage(SAFE_FALLBACK_MESSAGE)
            /\ tasks'[t].requests = <<>>
            /\ tasks'[t].fallbacks = 0
            /\ _current_model' = _current_model
            /\ _free_model_cache' = _free_model_cache]_vars

\* a call of ask_ai has just ended that way, the catalogue cache being filled
NoModelNoNetworkWitness ==
  \E t \in Users :
    /\ tasks[t].pc = "done" /\ tasks[t].op = "ask"
    /\ _current_model = <<>> /\ DEFAULT_MODEL = <<>>
    /\ tasks[t].ret = ReturnMessage(SAFE_FALLBACK_MESSAGE)
    /\ _free_model_cache # <<>>

\* C5: from the entry of _try_model_fallback on, the request issues no completion
\* request (smoke probe or fallback attempt) against an id of its exclusion set.
ExcludedNeverInvoked ==
  \A t \in Users :
    tasks[t].fallbacks > 0
      => \A request \in Requested(t) :
           request.site # "ask" => request.model \notin tasks[t].exclude_ids

\* C6: every call of ask_ai that returns hands its caller a non-empty string.
RepliesNonEmpty ==
  \A t \in Users :
    tasks[t].pc = "done"
      => \/ tasks[t].ret.kind = "message" /\ tasks[t].ret.msg # ""
         \/ tasks[t].ret.kind = "content" /\ tasks[t].ret.text # NoText

\* the first _invoke_model of the call of ask_ai task t runs has returned result r
FirstFailed(t, r) ==
  /\ tasks[t].op = "ask"
  /\ tasks[t].result = r
  /\ r # NoOutcome /\ r.raised = None /\ ~r.success

\* what makes ask_ai fall back
Triggers(r) == r.code = "429" \/ r.detail \in {"refusal", "reasoning_leak"}

\* C7: once the first invocation of a call of ask_ai has failed with code "429"
\* (429 or "429" in the error envelope), or with detail refusal or reasoning_leak,
\* the call has run _try_model_fallback with exactly the failed model id excluded;
\* it holds in every state from that return on, so before the call returns.
TriggerRunsFallback ==
  /\ \A body \in {Body.Error429, Body.Error429Str} :
       OutcomeOf[JsonResponse(200, body)].code = "429"
  /\ \A t \in Users :
       FirstFailed(t, tasks[t].result) /\ Triggers(tasks[t].result)
         => /\ tasks[t].fallbacks = 1
            /\ tasks[t].requests[1].site = "ask"
            /\ tasks[t].exclude_ids = {tasks[t].requests[1].model}
            /\ \A k \in 2..Len(tasks[t].requests) : tasks[t].requests[k].site # "ask"

\* a call whose first invocation met the string code "429" is attempting a fallback
TriggerRunsFallbackWitness ==
  \E t \in Users :
    /\ FirstFailed(t, OutcomeOf[JsonResponse(200, Body.Error429Str)])
    /\ tasks[t].pc = "fallback_invoke"
    /\ tasks[t].fallbacks = 1

\* the failures the environment produces from an exception of the POST
NetworkErrors == {OutcomeOf[response] : response \in {r \in Responses : r.kind = "exc"}}

\* the failures it produces from an error envelope that carries no code 429
ProviderErrors ==
  {OutcomeOf[JsonResponse(200, body)] : body \in {Body.Error500, Body.ErrorNoCode,
                                                   Body.ErrorRefusal}}

\* the call of ask_ai of task t ends in this step, after its first invocation only
\* and without _try_model_fallback or a change of the selection
EndsWithoutFallback(t) ==
  /\ tasks'[t].pc = "done"
  /\ tasks'[t].ret.kind = "message"
  /\ tasks'[t].fallbacks = 0
  /\ Len(tasks'[t].requests) <= 1
  /\ _current_model' = _current_model
  /\ _free_model_cache' = _free_model_cache

\* the first invocation of the call of task t returns in this step
FirstReturns(t) ==
  /\ tasks[t].result = NoOutcome
  /\ tasks'[t].op = "ask"
  /\ FirstFailed(t, tasks[t].result)'

\* C8 as stated: a first invocation that fails with empty_content, invalid_response,
\* the missing credential, a provider error or a network error ends the call of
\* ask_ai: no fallback, one invocation, the active model id unchanged.
ListedFailuresEndRequest ==
  [][\A t \in Users :
       /\ FirstReturns(t)
       /\ \/ tasks'[t].result.detail \in {"empty_content", "invalid_response"}
          \/ tasks'[t].result = MissingKeyOutcome
          \/ tasks'[t].result \in ProviderErrors \cup NetworkErrors
       => EndsWithoutFallback(t)]_vars

\* C8: a first invocation that fails with a code other than "429" and a detail other
\* than refusal and reasoning_leak (empty_content of a 15-character text, the missing
\* credential, invalid_response of a status other than 429, any other provider or
\* network error) ends the call of ask_ai in the same step: no fallback, one
\* invocation at most, and that step leaves the active model id as it was.
OtherFailuresEndRequest ==
  [][\A t \in Users :
       FirstReturns(t) /\ ~Triggers(tasks'[t].result) => EndsWithoutFallback(t)]_vars

\* a call has ended on the 15-character text, after its one invocation
OtherFailuresEndRequestWitness ==
  \E t \in Users :
    /\ Len(Text.Short) = 15
    /\ FirstFailed(t, OutcomeOf[JsonResponse(200, Body.Short)])
    /\ tasks[t].result.detail = "empty_content"
    /\ tasks[t].pc = "done"
    /\ tasks[t].ret = ReturnMessage(EmptyContentMessage)
    /\ tasks[t].fallbacks = 0 /\ Len(tasks[t].requests) = 1

\* the messages ask_ai has for a failure that did not go through the fallback
GenericMessages ==
  {EmptyContentMessage, InvalidResponseMessage, RequestFailedMessage,
   SAFE_FALLBACK_MESSAGE}
    \cup {ModelErrorMessage(OutcomeOf[response].detail) :
            response \in {r \in Responses : OutcomeOf[r].detail # None}}

\* the fallback of the call of ask_ai task t runs has returned a Failure
FallbackFailed(t) ==
  /\ tasks[t].pc = "done"
  /\ tasks[t].fallbacks = 1
  /\ tasks[t].fallback_result # NoOutcome
  /\ ~tasks[t].fallback_result.success

\* C9: when the fallback of a call of ask_ai ends in Failure, the message returned
\* follows from what triggered the fallback, whatever the fallback's own failure was:
\* the rate-limit message after code "429", the refusal message after a refusal, the
\* abnormal-output message after a reasoning leak; never a generic error message.
ExhaustedMessageByTrigger ==
  \A t \in Users :
    FallbackFailed(t)
      => /\ tasks[t].ret.kind = "message"
         /\ tasks[t].ret.msg \notin GenericMessages
         /\ tasks[t].result.code = "429" => tasks[t].ret.msg = RateLimitMessage
         /\ tasks[t].result.code # "429" /\ tasks[t].result.detail = "refusal"
              => tasks[t].ret.msg = RefusalMessage
         /\ tasks[t].result.code # "429" /\ tasks[t].result.detail = "reasoning_leak"
              => tasks[t].ret.msg = AbnormalOutputMessage

\* a refusal triggered the fallback, whose last attempt failed with code "429": the
\* caller gets the refusal message
ExhaustedMessageByTriggerWitness ==
  \E t \in Users :
    /\ FallbackFailed(t)
    /\ tasks[t].result.detail = "refusal"
    /\ tasks[t].fallback_result.code = "429"
    /\ tasks[t].ret = ReturnMessage(RefusalMessage)

\* C10: no response makes _invoke_model raise, and no call of ask_ai is left by an
\* exception: every call returns a string.
PipelineNeverRaises ==
  \A t \in Users :
    /\ tasks[t].result.raised = None
    /\ tasks[t].fallback_result.raised = None
    /\ tasks[t].pc # "raised"

\* the ids of a list of candidates
Ids(candidates) == {candidates[k].id : k \in 1..Len(candidates)}

\* C11: a refresh whose smoke test sent its last request before another task's
\* fallback switched the active model does not clear or overwrite the id the
\* fallback wrote: the two updates of the active model id are serialized.
SwitchNotLost ==
  [][\A u \in Tasks :
       /\ overtaken[u] > 0
       /\ overtaken[u] = Len(tasks[u].requests)
       /\ tasks[u].pc = "smoke_invoke"
       /\ tasks'[u].pc \in {"done", "raised"}
       => _current_model' = _current_model]_vars

\* C12: the active model id is empty until the first operation starts, and a step
\* of the running process changes it only to the id of a smoke probe or of a
\* fallback attempt that has just returned Success.
ActiveIdChangesOnlyOnSuccess ==
  [][/\ started = 0 => _current_model = <<>>
     /\ alive' /\ _current_model' # _current_model
          => \E t \in Tasks :
               /\ tasks[t].pc \in {"smoke_invoke", "fallback_invoke"}
               /\ tasks'[t] # tasks[t]
               /\ Pending(t) \in verified'
               /\ _current_model' = Pending(t)]_vars

\* C13: the fallback attempt that returns Success ends the cascade: in that step its
\* model id becomes the active model id, the call of ask_ai ends with the content of
\* that Success, and no further completion request is issued.
FirstSuccessWins ==
  [][\A t \in Users :
       tasks[t].pc = "fallback_invoke" /\ tasks'[t].fallback_result.success
         => /\ _current_model' = Pending(t)
            /\ tasks'[t].fallback_result.model_id = Pending(t)
            /\ tasks'[t].pc = "done"
            /\ tasks'[t].ret = ReturnContent(tasks'[t].fallback_result.content)
            /\ tasks'[t].requests = tasks[t].requests]_vars

\* the second attempt of a cascade has succeeded after the first one failed
FirstSuccessWinsWitness ==
  \E t \in Users :
    /\ tasks[t].pc = "done"
    /\ tasks[t].fallback_result.success
    /\ tasks[t].attempts = 2
    /\ tasks[t].last_failure # NoOutcome
    /\ _current_model = tasks[t].fallback_candidates[2].id
    /\ tasks[t].ret = ReturnContent(Text.Good)

\* the outcomes an attempt of the cascade can return
AttemptFailures ==
  {OutcomeOf[response] :
     response \in {r \in Responses : ~OutcomeOf[r].success /\ OutcomeOf[r].raised = None}}

\* C14: when the retry set is not empty and every attempt fails, _try_model_fallback
\* returns the Failure of the last attempt it made, with its detail and code, and
\* never a failure of its own making.
LastFailureReturned ==
  [][\A t \in Users :
       /\ tasks[t].pc \in {"fallback_invoke", "fallback_sleep"}
       /\ tasks'[t].pc = "done"
       /\ ~tasks'[t].fallback_result.success
       => /\ tasks'[t].fallback_result = tasks'[t].last_failure
          /\ tasks'[t].fallback_result \in AttemptFailures
          /\ tasks[t].pc = "fallback_sleep"
               => tasks'[t].last_failure = tasks[t].last_failure
          /\ tasks'[t].fallback_result.detail
               \notin {"rate_limit_no_fallback", "no_fallback_models"}]_vars

\* two attempts have failed and the cascade has returned the second one's failure
LastFailureReturnedWitness ==
  \E t \in Users :
    /\ tasks[t].pc = "done"
    /\ Len(tasks[t].fallback_candidates) = 2
    /\ tasks[t].requests[Len(tasks[t].requests)].site = "fallback"
    /\ tasks[t].requests[Len(tasks[t].requests)].model = tasks[t].fallback_candidates[2].id
    /\ tasks[t].attempts >= 2
    /\ tasks[t].result.code = "429"
    /\ tasks[t].fallback_result = OutcomeOf[JsonResponse(200, Body.Error500)]

\* task t is in the smoke test of a refresh
InSmokeTest(t) == tasks[t].pc \in {"smoke_invoke", "smoke_sleep"}

\* the first n entries of a sequence
Prefix(seq, n) == SubSeq(seq, 1, n)

\* C15: while no other operation runs, the working set of a smoke test has at most
\* SMOKE_TEST_LIMIT entries and no id twice, starts with the active model when that
\* is among the candidates, and goes on with the other candidates in ranked order.
WorkingSetWellFormed ==
  \A t \in Tasks :
    InSmokeTest(t)
      => LET selected == tasks[t].selected
             leads    == _current_model # <<>> /\ _current_model \in Ids(_free_model_cache)
             others   == SelectSeq(_free_model_cache,
                                   LAMBDA entry : ~leads \/ entry.id # _current_model)
             rest     == IF leads THEN Tail(selected) ELSE selected
         IN  /\ Len(selected) <= SMOKE_TEST_LIMIT
             /\ Cardinality(Ids(selected)) = Len(selected)
             /\ leads => selected[1].id = _current_model
             /\ Len(rest) <= Len(others) /\ rest = Prefix(others, Len(rest))

\* the smoke probes task t has sent
SmokeRequests(t) == SelectSeq(tasks[t].requests, LAMBDA request : request.site = "smoke")

\* C16: the smoke test probes its working set in order, one entry after the other;
\* a probe that returns Success ends it with that entry as the winner and no later
\* entry probed, and it ends without a winner only after the last entry's probe failed.
SmokeTestFirstMatch ==
  /\ [](\A t \in Tasks :
         InSmokeTest(t)
           => /\ Len(SmokeRequests(t)) = tasks[t].index
              /\ \A k \in 1..tasks[t].index :
                   SmokeRequests(t)[k].model = tasks[t].selected[k].id)
  /\ [][\A t \in Tasks :
         tasks[t].pc = "smoke_invoke" /\ tasks'[t] # tasks[t] /\ alive'
           => /\ Pending(t) \in verified' \ verified
                   => /\ ~InSmokeTest(t)'
                      /\ _current_model' = Pending(t)
                      /\ Len(SmokeRequests(t)') = Len(SmokeRequests(t))
              /\ Pending(t) \notin verified'
                   => \/ tasks'[t].pc = "raised"
                      \/ /\ tasks[t].index < Len(tasks[t].selected)
                         /\ InSmokeTest(t)'
                         /\ _current_model' = _current_model
                      \/ /\ tasks[t].index = Len(tasks[t].selected)
                         /\ ~InSmokeTest(t)'
                         /\ _current_model' = <<>>]_vars

\* a refresh has ended whose second probe succeeded after the first one failed
SmokeTestFirstMatchWitness ==
  /\ tasks[Refresher].pc = "done"
  /\ Len(tasks[Refresher].selected) = 2
  /\ tasks[Refresher].index = 2
  /\ Len(tasks[Refresher].requests) = 2
  /\ _current_model = tasks[Refresher].selected[2].id
  /\ tasks[Refresher].selected[1].id \notin verified

\* the entries are in order of context_tokens descending, then of id ascending
Ordered(candidates) ==
  \A i, j \in 1..Len(candidates) :
    i < j => \/ candidates[i].context_tokens > candidates[j].context_tokens
             \/ /\ candidates[i].context_tokens = candidates[j].context_tokens
                /\ ~StrLess(candidates[j].id, candidates[i].id)

\* C17: the candidate cache, and every list refresh_free_models returns (to
\* _perform_model_refresh or to _try_model_fallback), is in
\* order of context_tokens descending with ties broken by id ascending
CacheRanked ==
  /\ Ordered(_free_model_cache)
  /\ \A t \in Tasks :
       tasks[t].op = "refresh" /\ tasks[t].pc = "done" => Ordered(tasks[t].ret.list)
  /\ \A t \in Users : Ordered(tasks[t].fallback_candidates)

\* a refresh has returned a catalogue where the larger context was listed last and
\* two entries of the same context were listed in descending order of id
CacheRankedWitness ==
  /\ tasks[Refresher].op = "refresh"
  /\ tasks[Refresher].pc = "done"
  /\ tasks[Refresher].ret.list = _free_model_cache
  /\ Len(_free_model_cache) = 3
  /\ _free_model_cache[1].context_tokens > _free_model_cache[2].context_tokens
  /\ _free_model_cache[2].context_tokens = _free_model_cache[3].context_tokens
  /\ StrLess(_free_model_cache[2].id, _free_model_cache[3].id)

\* the catalogue's value is a number equal to zero: 0, or a numeral of zeros
ExactlyZero(value) ==
  \/ value.t = "num" /\ value.v = 0
  \/ /\ value.t = "str"
     /\ LET body   == strip(value.v)
            digits == SelectSeq(body, LAMBDA c : c # ".")
        IN  /\ digits # <<>>
            /\ Len(body) - Len(digits) <= 1
            /\ \A k \in 1..Len(digits) : digits[k] = "0"

\* the catalogue item costs nothing and is marked free in its id or its name
FreeOfCharge(item) ==
  /\ "pricing" \in DOMAIN item.v
  /\ "prompt" \in DOMAIN item.v.pricing.v
  /\ "completion" \in DOMAIN item.v.pricing.v
  /\ ExactlyZero(item.v.pricing.v.prompt)
  /\ ExactlyZero(item.v.pricing.v.completion)
  /\ \/ contains(lower(item.v.id.v), FreeKeyword)
     \/ contains(lower(item.v.name.v), FreeKeyword)

\* per catalogue, the id and name of its items that are free of charge, computed once
FreeEntries ==
  {{<<catalog[i].v.id.v, catalog[i].v.name.v>> :
      i \in {j \in 1..Len(catalog) : FreeOfCharge(catalog[j])}} : catalog \in Catalogs}

\* C18: every entry of the candidate cache comes from an item of a catalogue whose
\* prompt cost and completion cost are both exactly zero (a missing or non-numeric
\* price is not zero) and whose id or name contains "free"
CacheEntriesFree ==
  \E entries \in FreeEntries :
    \A k \in 1..Len(_free_model_cache) :
      <<_free_model_cache[k].id, _free_model_cache[k].name>> \in entries

\* the cache holds the entries of a catalogue that also listed a priced item, an
\* item without prices, items with a price that is no number, and an unmarked item
CacheEntriesFreeWitness ==
  /\ Len(_free_model_cache) = 3
  /\ Len(CatalogMixed) > 3
  /\ Ids(_free_model_cache) = {CatalogMixed[i].v.id.v : i \in {1, 4, 8}}
  /\ \A i \in {2, 3, 5, 6, 7} : ~FreeOfCharge(CatalogMixed[i])
  /\ \E t \in Tasks : tasks[t].pc = "done"

\* the texts _invoke_model hands to the sanitizer
RawTexts == {OutcomeOf[response].raw : response \in Responses}

\* the sanitizer applied once and twice, computed once
Sanitized == [text \in RawTexts |-> sanitize_discord_output(text)]

SanitizedTwice ==
  [text \in {Sanitized[raw] : raw \in RawTexts} |-> sanitize_discord_output(text)]

\* C19: sanitize_discord_output(sanitize_discord_output(x)) = sanitize_discord_output(x) for
\* every completion text x that _invoke_model has sanitized
SanitizerIdempotent ==
  \A t \in Tasks :
    \A outcome \in {tasks[t].result, tasks[t].fallback_result} :
      outcome.success
        => /\ outcome.content = Sanitized[outcome.raw]
           /\ SanitizedTwice[outcome.content] = outcome.content

\* the outcomes of _invoke_model a task holds: of the first request, of the last
\* failed fallback attempt, of the fallback attempt that succeeded
HeldOutcomes(t) ==
  ({tasks[t].result, tasks[t].last_failure} \ {NoOutcome})
    \cup {outcome \in {tasks[t].fallback_result} : outcome.success}

\* C20: every call of _invoke_model that has returned (with the credential missing,
\* after a transport exception, a non-JSON body, a provider error, a too-short
\* content, a refusal, a reasoning leak or a Success) has called
\* check_memory_and_exit exactly once
GuardOncePerCall ==
  \A t \in Tasks :
    \A outcome \in HeldOutcomes(t) : outcome.raised = None => outcome.guard = 1

\* in this step a call of refresh_free_models by task t ends for want of a
\* catalogue: the credential is missing, or the GET has failed
RefreshFails(t) ==
  \/ ~OPENROUTER_API_KEY /\ tasks'[t].refreshes = tasks[t].refreshes + 1
  \/ tasks[t].pc = "refresh_fetch" /\ tasks'[t].fetched = "failed"

\* C21: a call of refresh_free_models that finds the credential missing, or whose
\* catalogue fetch fails, returns an empty list without raising, and the active
\* model id is empty afterwards
FailedRefreshDisablesAi ==
  [][\A t \in Tasks :
       RefreshFails(t)
         => /\ tasks'[t].pc # "raised"
            /\ tasks[t].op = "refresh" \/ tasks'[t].op = "refresh"
                 => tasks'[t].pc = "done" /\ tasks'[t].ret = ReturnList(<<>>)
            /\ _current_model' = <<>>]_vars

\* the failures of a first invocation that make ask_ai return without a fallback
TerminalFailures ==
  {r \in {OutcomeOf[response] : response \in Responses} \cup {MissingKeyOutcome} :
     ~r.success /\ r.raised = None /\ ~Triggers(r)}

\* the kind of a failure, by what produced it
FailureKind(r) ==
  IF r = MissingKeyOutcome THEN "missing_api_key"
  ELSE IF r \in NetworkErrors THEN "network_error"
  ELSE IF r \in ProviderErrors THEN "provider_error"
  ELSE r.detail

\* what ask_ai returns when its first invocation has returned r
MessageFor(r) ==
  AskAfterInvoke([current |-> <<>>, cache |-> <<>>, task |-> IdleTask], r).task.ret

\* C22: the message of a call of ask_ai that ended without fallback on a failure of
\* one kind (empty_content, invalid_response, missing_api_key, provider_error,
\* network_error) is the message of no failure of another kind
MessageTellsFailureKind ==
  \A t \in Users :
    /\ tasks[t].pc = "done"
    /\ FirstFailed(t, tasks[t].result)
    /\ tasks[t].result \in TerminalFailures
    => /\ tasks[t].ret = MessageFor(tasks[t].result)
       /\ \A other \in TerminalFailures :
            FailureKind(other) # FailureKind(tasks[t].result)
              => MessageFor(other) # tasks[t].ret

\* the completion requests the fallback loop of task t has issued
FallbackRequests(t) ==
  SelectSeq(tasks[t].requests, LAMBDA request : request.site = "fallback")

\* C23: the fallback loop works on the cache (or the refreshed list) without the
\* excluded ids, in its ranked order; its k-th attempt goes to the k-th entry, with
\* the prompts and the sampling of the call's first request; it makes at most
\* SMOKE_TEST_LIMIT attempts
FallbackInCacheOrder ==
  /\ [](\A t \in Users :
          LET attempted == FallbackRequests(t)
          IN  /\ Len(attempted) <= SMOKE_TEST_LIMIT
              /\ Len(attempted) <= Len(tasks[t].fallback_candidates)
              /\ Ordered(tasks[t].fallback_candidates)
              /\ \A k \in 1..Len(attempted) :
                   /\ attempted[k].model = tasks[t].fallback_candidates[k].id
                   /\ attempted[k].model \notin tasks[t].exclude_ids
                   /\ attempted[k].system = tasks[t].requests[1].system
                   /\ attempted[k].user = tasks[t].requests[1].user
                   /\ attempted[k].sampling = tasks[t].requests[1].sampling
                   /\ tasks[t].requests[1].site = "ask")
  /\ [][\A t \in Users :
         tasks'[t].fallback_candidates # tasks[t].fallback_candidates
           => \/ tasks'[t].fallback_candidates
                  = NotExcluded(_free_model_cache', tasks'[t].exclude_ids)
              \/ tasks'[t].pc = "idle"]_vars

\* a call with prompts of its own has made two fallback attempts, the excluded id
\* standing first in the cache
FallbackInCacheOrderWitness ==
  \E t \in Users :
    /\ Len(FallbackRequests(t)) = 2
    /\ tasks[t].requests[1].system = "custom system"
    /\ Len(_free_model_cache) = 3
    /\ tasks[t].exclude_ids = {_free_model_cache[1].id}
    /\ FallbackRequests(t)[1].model = _free_model_cache[2].id
    /\ FallbackRequests(t)[2].model = _free_model_cache[3].id

\* task t is inside refresh_free_models
InRefresh(t) == tasks[t].pc \in {"refresh_fetch", "smoke_invoke", "smoke_sleep"}

NoFallbackModels == Failure("no_fallback_models", None, 0)

\* C24: _try_model_fallback calls refresh_free_models exactly when the cache without
\* the excluded ids is empty, once at most; it filters the list the refresh returns
\* again, and returns no_fallback_models, without an attempt, exactly when that is
\* empty too
RefreshOnlyWhenNothingLeft ==
  /\ [](\A t \in Users :
          /\ tasks[t].refreshes <= tasks[t].fallbacks
          /\ tasks[t].fallbacks <= 1
          /\ tasks[t].fallback_result = NoFallbackModels
               => /\ tasks[t].refreshes = 1
                  /\ FallbackRequests(t) = <<>>
                  /\ tasks[t].fallback_candidates = <<>>
          /\ tasks[t].pc = "done" /\ tasks[t].fallbacks = 1
                /\ tasks[t].fallback_candidates = <<>>
               => tasks[t].fallback_result = NoFallbackModels)
  /\ [][\A t \in Users :
         /\ tasks'[t].fallbacks = tasks[t].fallbacks + 1
              => (tasks'[t].refreshes = tasks[t].refreshes + 1
                    <=> NotExcluded(_free_model_cache, tasks'[t].exclude_ids) = <<>>)
         /\ tasks[t].op = "ask" /\ InRefresh(t) /\ ~InRefresh(t)' /\ alive'
               /\ tasks'[t].pc # "raised"
              => LET returned == IF tasks'[t].fetched = "ok" THEN _free_model_cache'
                                 ELSE <<>>
                     filtered == NotExcluded(returned, tasks[t].exclude_ids)
                 IN  IF filtered = <<>>
                     THEN /\ tasks'[t].pc = "done"
                          /\ tasks'[t].fallback_result = NoFallbackModels
                     ELSE /\ tasks'[t].fallback_candidates = filtered
                          /\ tasks'[t].pc = "fallback_invoke"
                          /\ Len(FallbackRequests(t)') = 1]_vars

\* a fallback found nothing in the cache, refreshed it, and is attempting the first
\* entry of a refreshed list that holds the excluded id too
RefreshOnlyWhenNothingLeftWitness ==
  \E t \in Users :
    /\ tasks[t].refreshes = 1
    /\ tasks[t].fetched = "ok"
    /\ tasks[t].pc = "fallback_invoke"
    /\ tasks[t].exclude_ids \cap Ids(_free_model_cache) # {}
    /\ Len(tasks[t].fallback_candidates) < Len(_free_model_cache)

\* C25: a call of ask_ai issues at most 1 + SMOKE_TEST_LIMIT completion requests: its
\* first invocation and a fallback loop capped at the probe limit
RequestsBounded ==
  \A t \in Users : Len(tasks[t].requests) <= 1 + SMOKE_TEST_LIMIT

\* task t awaits the answer to a completion request
InFlight(t) == tasks[t].pc \in {"ask_invoke", "smoke_invoke", "fallback_invoke"}

\* C26: a call of ask_ai issues its completion requests one at a time, whatever the
\* refresh task does meanwhile: a step adds one request at most, the request added
\* is the one in flight, and a fallback attempt is added only once the attempt
\* before it (the first invocation, or the fallback attempt before) has returned a
\* Failure
AttemptsSequential ==
  [][\A t \in Users :
       LET old == tasks[t].requests
           new == tasks'[t].requests
       IN  new # old /\ tasks'[t].pc # "idle"
             => /\ Len(new) = Len(old) + 1
                /\ Prefix(new, Len(old)) = old
                /\ InFlight(t)'
                /\ old # <<>> => /\ InFlight(t) \/ tasks[t].pc \in {"smoke_sleep", "fallback_sleep", "refresh_fetch"}
                                 /\ tasks'[t].result # NoOutcome
                                 /\ ~tasks'[t].result.success
                /\ new[Len(new)].site = "fallback"
                     => /\ tasks'[t].attempts = Len(FallbackRequests(t)')
                        /\ tasks'[t].attempts > 1
                             => /\ tasks'[t].last_failure # NoOutcome
                                /\ ~tasks'[t].last_failure.success
                                /\ tasks'[t].last_failure.raised = None]_vars

\* a call is awaiting its second fallback attempt while the refresh task awaits a
\* smoke probe
AttemptsSequentialWitness ==
  \E t \in Users :
    /\ tasks[t].pc = "fallback_invoke"
    /\ Len(FallbackRequests(t)) = 2
    /\ tasks[t].last_failure # NoOutcome
    /\ tasks[Refresher].pc = "smoke_invoke"

\* the body carries an error envelope
HasErrorEnvelope(body) ==
  body.t = "obj" /\ "error" \in DOMAIN body.v /\ Truthy(body.v.error)

\* the message of the error envelope, None when it has none to read
EnvelopeMessage(body) ==
  IF body.v.error.t = "obj" /\ "message" \in DOMAIN body.v.error.v
  THEN body.v.error.v.message.v
  ELSE None

\* the completion text of the body, empty when there is none
ExtractedText(body) ==
  IF extract_content(body).ok THEN extract_content(body).v ELSE <<>>

\* the detail the first condition that applies gives a response, None for Success
Expected ==
  [response \in Responses |->
     IF response.kind = "exc" THEN response.text
     ELSE IF response.kind = "nonjson" THEN "invalid_response"
     ELSE IF HasErrorEnvelope(response.body) THEN EnvelopeMessage(response.body)
     ELSE IF Len(ExtractedText(response.body)) < 16 THEN "empty_content"
     ELSE IF _is_refusal_response(sanitize_discord_output(ExtractedText(response.body)))
     THEN "refusal"
     ELSE IF _has_reasoning_leak(sanitize_discord_output(ExtractedText(response.body)))
     THEN "reasoning_leak"
     ELSE None] @@ <<>>

\* C27: what a call of _invoke_model returns is decided by the first condition that
\* applies, in the order: missing credential, transport exception, non-JSON body,
\* error envelope, extracted text shorter than 16 characters (before sanitizing),
\* refusal phrase in the sanitized text, reasoning-leak phrase in the sanitized
\* text, and Success otherwise
OutcomeByFirstCondition ==
  \A t \in Tasks :
    /\ ~OPENROUTER_API_KEY
         => /\ tasks[t].requests = <<>>
            /\ HeldOutcomes(t) \subseteq {MissingKeyOutcome}
    /\ tasks[t].response # NoResponse /\ tasks[t].outcome.raised = None
         => /\ OPENROUTER_API_KEY
            /\ tasks[t].outcome.detail = Expected[tasks[t].response]
            /\ tasks[t].outcome.success <=> Expected[tasks[t].response] = None

\* a call has returned refusal for a text that holds a refusal phrase and a
\* reasoning-leak phrase
OutcomeByFirstConditionWitness ==
  \E t \in Tasks :
    /\ tasks[t].response = JsonResponse(200, Body.Both)
    /\ tasks[t].outcome.detail = "refusal"

\* the complete ranked lists of the catalogues
RankedCatalogs == {RankedCandidates(catalog) : catalog \in Catalogs}

\* C28: a call of refresh_free_models that ends for want of a catalogue (missing
\* credential, failed GET) leaves the cache and the active model id as they were;
\* the cache changes only when a GET has succeeded, and then to the complete ranked
\* list of the fetched catalogue; what a reader has taken from the cache is all of
\* one such list
FailedRefreshChangesNothing ==
  /\ [](\A t \in Tasks :
          /\ _free_model_cache \in RankedCatalogs \cup {<<>>}
          /\ tasks[t].fallback_candidates # <<>>
               => \E whole \in RankedCatalogs :
                    tasks[t].fallback_candidates = NotExcluded(whole, tasks[t].exclude_ids)
          /\ tasks[t].op = "refresh" /\ tasks[t].pc = "done"
               => tasks[t].ret.list \in RankedCatalogs \cup {<<>>})
  /\ [][/\ \A t \in Tasks :
            RefreshFails(t)
              => /\ _free_model_cache' = _free_model_cache
                 /\ _current_model' = _current_model
        /\ _free_model_cache' # _free_model_cache /\ alive'
              => \E t \in Tasks :
                   /\ tasks[t].pc = "refresh_fetch"
                   /\ tasks'[t].fetched = "ok"
                   /\ _free_model_cache' \in RankedCatalogs]_vars

\* a refresh has just failed at its GET, the cache and the selection being set
FailedRefreshChangesNothingWitness ==
  /\ tasks[Refresher].op = "refresh"
  /\ tasks[Refresher].pc = "done"
  /\ tasks[Refresher].fetched = "failed"
  /\ _free_model_cache # <<>>
  /\ _current_model # <<>>

\* task t is between the acquisition and the release of a lock of the browser
InSection(t) == callers[t].pc \in {"closing", "starting", "launching", "stopping"}

\* C29: under any interleaving of _ensure_browser and _shutdown_playwright calls
\* at most one task at a time is checking, closing or launching the shared
\* browser, and no two launched browsers are connected at once.
BrowserSectionExclusive ==
  /\ \A t \in BrowserTasks : \A u \in BrowserTasks :
       InSection(t) /\ InSection(u) => t = u
  /\ \A b \in 1..Len(browsers) : \A c \in 1..Len(browsers) :
       browsers[b] /\ browsers[c] => b = c

====
